---------------------------- MODULE Spec2Model ----------------------------
(***************************************************************************)
(* Model of the manifest acquisition and unlock-artifact synthesis         *)
(* pipeline of Cai-Installer-Gui (src/backend_gui.py) and of the part of   *)
(* the presentation layer that gates it (src/frontend_gui.py).             *)
(*                                                                         *)
(* Text is modelled as a sequence of one-character strings, so that the    *)
(* code's suffix tests, substring tests and regular expressions are        *)
(* computed rather than assumed.                                           *)
(***************************************************************************)
EXTENDS Integers, Sequences, FiniteSets, TLC

VARIABLES
    \* ---- process environment and GuiBackend fields
    IS_CN,                  \* os.environ['IS_CN']: "unset", "yes" or "no"
    last_detected_region,   \* GuiBackend.last_detected_region
    current_country,        \* GuiBackend.current_country ("None" when unset)
    regionLog,              \* what the last checkcn call logged about the region
    conf,                   \* unlocker_type, app_config["steamtools_only_lua"],
                            \* st_lock_manifest_version
    disk,                   \* the Steam directory and the scratch directory
    \* ---- one call of a single function (get_from_url, checkcn, depotkey_merge, ...)
    fcArgs,                 \* the arguments and remote answers of the last call
    fcOut,                  \* its outcome
    \* ---- one call of a batch driver
    driver,                 \* "specific" or "searchall"
    repo_val,               \* the source chosen for process_from_specific_repo
    app_id_inputs,          \* the raw input items
    remote,                 \* what the sources may answer with: the file trees
                            \* and the contents of a key config
    pc,                     \* where the driver is
    app_ids,                \* resolve_appids(app_id_inputs)
    idx,                    \* the index in app_ids of the identifier at hand
    succeeded,              \* success of each identifier processed so far
    outcome,                \* "pending", then "true", "false" or "raised"
    requests,               \* the kinds of request issued so far
    gate,                   \* the quota answer and what the check returned
    cur,                    \* the identifier at hand: source, tree, search state
    tasks,                  \* the gathered per-entry tasks and their results
    \* ---- the window
    gui                     \* widgets, dialog, lock, worker and pending callbacks

regionVars == <<last_detected_region, current_country, regionLog>>
fetchVars  == <<fcArgs, fcOut>>
runVars    == <<driver, repo_val, app_id_inputs, remote, pc, app_ids, idx, succeeded,
                outcome, requests, gate, cur, tasks, gui>>
vars == <<IS_CN, regionVars, conf, disk, fetchVars, runVars>>

None == "None"

-----------------------------------------------------------------------------
(* Text helpers *)

Digits == {"0", "1", "2", "3", "4", "5", "6", "7", "8", "9"}
Lowers == {"a", "b", "c", "d", "e", "f", "g", "h", "i", "j", "k", "l", "m",
           "n", "o", "p", "q", "r", "s", "t", "u", "v", "w", "x", "y", "z"}
Uppers == {"A", "B", "C", "D", "E", "F", "G", "H", "I", "J", "K", "L", "M",
           "N", "O", "P", "Q", "R", "S", "T", "U", "V", "W", "X", "Y", "Z"}

\* str.isdigit() on the model's alphabet
IsDigit(c) == c \in Digits

\* the regular-expression class \w
IsWord(c) == c \in Digits \cup Lowers \cup Uppers \cup {"_"}

LowerTable ==
    [c \in Uppers |->
        CASE c = "A" -> "a" [] c = "B" -> "b" [] c = "C" -> "c" [] c = "D" -> "d"
          [] c = "E" -> "e" [] c = "F" -> "f" [] c = "G" -> "g" [] c = "H" -> "h"
          [] c = "I" -> "i" [] c = "J" -> "j" [] c = "K" -> "k" [] c = "L" -> "l"
          [] c = "M" -> "m" [] c = "N" -> "n" [] c = "O" -> "o" [] c = "P" -> "p"
          [] c = "Q" -> "q" [] c = "R" -> "r" [] c = "S" -> "s" [] c = "T" -> "t"
          [] c = "U" -> "u" [] c = "V" -> "v" [] c = "W" -> "w" [] c = "X" -> "x"
          [] c = "Y" -> "y" [] OTHER -> "z"]

\* str.lower()
Lower(s) == [i \in 1..Len(s) |-> IF s[i] \in Uppers THEN LowerTable[s[i]] ELSE s[i]]

\* s[i..j], empty when j < i
Slice(s, i, j) == IF j < i THEN <<>> ELSE SubSeq(s, i, j)

\* lit occurs in s starting at position i
MatchAt(s, i, lit) ==
    /\ i >= 1
    /\ i + Len(lit) - 1 <= Len(s)
    /\ \A k \in 1..Len(lit) : s[i + k - 1] = lit[k]

\* str.endswith
EndsWith(s, lit) == Len(s) >= Len(lit) /\ MatchAt(s, Len(s) - Len(lit) + 1, lit)

\* the `in` operator on strings
Contains(s, lit) == \E i \in 1..(Len(s) + 1) : MatchAt(s, i, lit)

\* the end of the longest run of characters of class cls starting at i (i - 1 when empty)
RECURSIVE RunEnd(_, _, _)
RunEnd(s, i, cls) ==
    IF i <= Len(s) /\ s[i] \in cls THEN RunEnd(s, i + 1, cls) ELSE i - 1

Min(S) == CHOOSE x \in S : \A y \in S : x <= y


-----------------------------------------------------------------------------
(* The literals of the code and the sample texts of the model *)

DotManifest == <<".", "m", "a", "n", "i", "f", "e", "s", "t">>
KeyVdf == <<"k", "e", "y", ".", "v", "d", "f">>
StoreUrl == <<"s", "t", "o", "r", "e", ".", "s", "t", "e", "a", "m", "p", "o", "w", "e", "r", "e", "d", ".", "c", "o", "m", "/", "a", "p", "p", "/">>
SteamDbUrl == <<"s", "t", "e", "a", "m", "d", "b", ".", "i", "n", "f", "o", "/", "a", "p", "p", "/">>
CommunityUrl == <<"s", "t", "e", "a", "m", "c", "o", "m", "m", "u", "n", "i", "t", "y", ".", "c", "o", "m", "/", "a", "p", "p", "/">>

Path480Abc == <<"4", "8", "0", "_", "a", "b", "c", ".", "m", "a", "n", "i", "f", "e", "s", "t">>
Path481Def == <<"4", "8", "1", "_", "d", "e", "f", ".", "m", "a", "n", "i", "f", "e", "s", "t">>
PathKey == <<"K", "e", "y", ".", "v", "d", "f">>
PathReadme == <<"a", ".", "m", "d">>
PathNoPin == <<"x", ".", "m", "a", "n", "i", "f", "e", "s", "t">>
Id480 == <<"4", "8", "0">>
Id481 == <<"4", "8", "1">>
Id620 == <<"6", "2", "0">>
TokAbc == <<"a", "b", "c">>
TokDef == <<"d", "e", "f">>
KeyDeadbeef == <<"d", "e", "a", "d", "b", "e", "e", "f">>
KeyCafe == <<"c", "a", "f", "e">>

-----------------------------------------------------------------------------
(* Multi-Source Fetch Layer: get_from_url *)

MirrorHosts == <<"cdn.jsdmirror.com", "raw.gitmirror.com">>
DirectHosts == <<"raw.githubusercontent.com">>
Hosts == {"cdn.jsdmirror.com", "raw.gitmirror.com", "raw.githubusercontent.com"}

\* the candidate list with a fault: the direct host is tried after the mirrors
CandidateUrlsWithDirect(is_cn, repo, sha, path) ==
    LET hosts == IF is_cn = "yes" THEN MirrorHosts \o DirectHosts ELSE DirectHosts
    IN  [i \in 1..Len(hosts) |-> [host |-> hosts[i], repo |-> repo, sha |-> sha, path |-> path]]

\* the candidate list built from the region flag
CandidateUrls(is_cn, repo, sha, path) ==
    LET hosts == IF is_cn = "yes" THEN MirrorHosts ELSE DirectHosts
    IN  [i \in 1..Len(hosts) |-> [host |-> hosts[i], repo |-> repo, sha |-> sha, path |-> path]]

\* A remote answer to one request: kind "200" (with a body), "status" (any other
\* status code) or "exc" (timeout or connection error raised by the client).
RespKinds == {"200", "status", "exc"}

\* the request loop with a fault: the first connection error ends the call
RECURSIVE TryUrlsNoFallback(_, _, _, _, _)
TryUrlsNoFallback(urls, resp, i, reqs, last_error) ==
    IF i > Len(urls)
    THEN [raised |-> TRUE, content |-> None, requests |-> reqs, last_error |-> last_error]
    ELSE LET r == resp[urls[i].host]
             reqs2 == Append(reqs, urls[i].host)
         IN  IF r.kind = "200"
             THEN [raised |-> FALSE, content |-> r.body, requests |-> reqs2,
                   last_error |-> last_error]
             ELSE IF r.kind = "exc"
             THEN [raised |-> TRUE, content |-> None, requests |-> reqs2,
                   last_error |-> urls[i].host]
             ELSE TryUrlsNoFallback(urls, resp, i + 1, reqs2, last_error)

\* the request loop of get_from_url from candidate i on
RECURSIVE TryUrls(_, _, _, _, _)
TryUrls(urls, resp, i, reqs, last_error) ==
    IF i > Len(urls)
    THEN [raised |-> TRUE, content |-> None, requests |-> reqs, last_error |-> last_error]
    ELSE LET r == resp[urls[i].host]
             reqs2 == Append(reqs, urls[i].host)
         IN  IF r.kind = "200"
             THEN [raised |-> FALSE, content |-> r.body, requests |-> reqs2,
                   last_error |-> last_error]
             ELSE TryUrls(urls, resp, i + 1, reqs2,
                          IF r.kind = "exc" THEN urls[i].host ELSE last_error)

GetFromUrl(is_cn, repo, sha, path, resp) ==
    TryUrls(CandidateUrls(is_cn, repo, sha, path), resp, 1, <<>>, None)

-----------------------------------------------------------------------------
(* Region gate: checkcn *)

NoRegion == <<>>
RegionCn == <<"cn">>
NotCn(country) == <<"not_cn_", country>>

\* A geolocation answer: the request raises ("exc"), answers another status
\* ("status"), answers 200 with a body that is no JSON object ("badjson"), or
\* answers 200 with an object ("ok") whose fields are flag, country_code, country
\* ("absent" when the key is missing).
ProbeCountries == {"absent", "", "US"}
ProbeFailures == [kind : {"exc", "status", "badjson"}]
KugouAnswers == ProbeFailures \cup [kind : {"ok"}, flag : BOOLEAN, country : ProbeCountries]
IpSbAnswers == ProbeFailures
               \cup [kind : {"ok"}, country_code : {"CN", "US"}, country : ProbeCountries]

CountryOf(data) == IF data.country = "absent" THEN "Unknown" ELSE data.country

\* the two parser lambdas of check_apis
ParseKugou(data) ==
    IF data.flag THEN <<RegionCn, "CN">> ELSE <<NotCn(CountryOf(data)), CountryOf(data)>>
ParseIpSb(data) ==
    IF data.country_code = "CN" THEN <<RegionCn, "CN">>
    ELSE <<NotCn(CountryOf(data)), CountryOf(data)>>

\* the probe loop: the first API whose answer parses to a non-empty region and country
ProbeLoop(answers) ==
    LET parsed(i) == IF i = 1 THEN ParseKugou(answers[i]) ELSE ParseIpSb(answers[i])
        usable(i) == answers[i].kind = "ok" /\ parsed(i)[2] # ""
        hits == {i \in 1..Len(answers) : usable(i)}
    IN  IF hits = {} THEN <<NoRegion, None>> ELSE parsed(Min(hits))

IsCnValue(region) == IF region = RegionCn THEN "yes" ELSE "no"

\* the except branch with a fault: IS_CN is taken from the region the locals
\* held when the exception was raised, not from the default
CheckCnExceptFromLocals(st, cur_region, cur_country) ==
    LET region  == IF st.last = NoRegion THEN RegionCn ELSE cur_region
        country == IF st.last = NoRegion THEN "CN" ELSE cur_country
    IN  [is_cn   |-> IF st.is_cn = "unset" THEN IsCnValue(cur_region) ELSE st.is_cn,
         last    |-> IF st.last = NoRegion THEN region ELSE st.last,
         country |-> IF st.last = NoRegion THEN country
                     ELSE IF st.country = None
                          THEN (IF region = RegionCn THEN "CN" ELSE "Unknown")
                          ELSE st.country,
         log     |-> {"exception"}]

\* the except branch of checkcn, entered with the locals as they were when the
\* exception was raised
CheckCnExcept(st, cur_region, cur_country) ==
    LET region  == IF st.last = NoRegion THEN RegionCn ELSE cur_region
        country == IF st.last = NoRegion THEN "CN" ELSE cur_country
    IN  [is_cn   |-> IF st.is_cn = "unset" THEN IsCnValue(region) ELSE st.is_cn,
         last    |-> IF st.last = NoRegion THEN region ELSE st.last,
         country |-> IF st.last = NoRegion THEN country
                     ELSE IF st.country = None
                          THEN (IF region = RegionCn THEN "CN" ELSE "Unknown")
                          ELSE st.country,
         log     |-> {"exception"}]

\* the result handling with a fault: after a total probe failure the stored
\* region is kept when one is known
CheckCnKeepOnFailure(st, client_given, answers, exc) ==
    LET probed == ProbeLoop(answers)
        failed == probed[1] = NoRegion
        region == IF failed THEN (IF st.last = NoRegion THEN RegionCn ELSE st.last)
                  ELSE probed[1]
        country == IF failed THEN (IF st.last = NoRegion THEN "CN" ELSE st.country)
                   ELSE probed[2]
        changed == region # st.last
    IN  [is_cn   |-> IF changed \/ st.is_cn = "unset" THEN IsCnValue(region) ELSE st.is_cn,
         last    |-> region,
         country |-> IF changed \/ st.country = None THEN country ELSE st.country,
         log     |-> IF changed THEN {"region"} ELSE {}]

\* checkcn with a fault: the region message is logged on every call
CheckCnAlwaysLogging(st, client_given, answers, exc) ==
    IF ~client_given /\ exc = "client"
    THEN CheckCnExcept(st, NoRegion, None)
    ELSE
    LET probed  == ProbeLoop(answers)
        failed  == probed[1] = NoRegion
        region  == IF failed THEN RegionCn ELSE probed[1]
        country == IF failed THEN "CN" ELSE probed[2]
        changed == region # st.last
    IN  IF exc = "log"
        THEN CheckCnExcept(st, region, country)
        ELSE [is_cn   |-> IF changed \/ st.is_cn = "unset"
                          THEN IsCnValue(region) ELSE st.is_cn,
              last    |-> IF changed THEN region ELSE st.last,
              country |-> IF changed \/ st.country = None THEN country ELSE st.country,
              log     |-> (IF failed /\ changed THEN {"default"} ELSE {}) \cup {"region"}]

\* checkcn as one call: st holds IS_CN, last_detected_region and current_country
\* before the call; exc says where an internal exception is raised: "none",
\* "client" (creating the temporary client, only without a caller's client) or
\* "log" (in a logging call of the result handling, when one is made).
CheckCn(st, client_given, answers, exc) ==
    IF ~client_given /\ exc = "client"
    THEN CheckCnExcept(st, NoRegion, None)
    ELSE
    LET probed  == ProbeLoop(answers)
        failed  == probed[1] = NoRegion
        region  == IF failed THEN RegionCn ELSE probed[1]
        country == IF failed THEN "CN" ELSE probed[2]
        changed == region # st.last
        warns   == failed /\ st.last # region
    IN  IF exc = "log" /\ (warns \/ changed)
        THEN CheckCnExcept(st, region, country)
        ELSE [is_cn   |-> IF changed \/ st.is_cn = "unset"
                          THEN IsCnValue(region) ELSE st.is_cn,
              last    |-> IF changed THEN region ELSE st.last,
              country |-> IF changed THEN country
                          ELSE IF st.country = None
                               THEN (IF country # "" /\ country # None THEN country
                                     ELSE IF region = RegionCn THEN "CN" ELSE "Unknown")
                               ELSE st.country,
              log     |-> (IF warns THEN {"default"} ELSE {})
                          \cup (IF changed THEN {"region"} ELSE {})]

RegionState == [is_cn |-> IS_CN, last |-> last_detected_region, country |-> current_country]

\* the assignments a checkcn call makes to the process state
ApplyCheckCn(client_given, answers, exc) ==
    LET out == CheckCn(RegionState, client_given, answers, exc)
    IN  /\ IS_CN' = out.is_cn
        /\ last_detected_region' = out.last
        /\ current_country' = out.country
        /\ regionLog' = out.log


-----------------------------------------------------------------------------
(* Identifier Resolver: extract_app_id, resolve_appids *)

\* re.search(lit + r"(\d+)", s): the digits after the leftmost occurrence of lit
\* that is followed by a digit; <<>> when there is none
SearchIdAfter(s, lit) ==
    LET starts == {i \in 1..Len(s) :
                      /\ MatchAt(s, i, lit)
                      /\ i + Len(lit) <= Len(s)
                      /\ IsDigit(s[i + Len(lit)])}
    IN  IF starts = {} THEN <<>>
        ELSE LET b == Min(starts) + Len(lit)
             IN  Slice(s, b, RunEnd(s, b, Digits))

\* str.isdigit(): non-empty and all digits
AllDigits(s) == Len(s) > 0 /\ \A i \in 1..Len(s) : IsDigit(s[i])

\* extract_app_id; <<>> stands for None
ExtractAppId(user_input) ==
    IF SearchIdAfter(user_input, StoreUrl) # <<>> THEN SearchIdAfter(user_input, StoreUrl)
    ELSE IF SearchIdAfter(user_input, SteamDbUrl) # <<>>
    THEN SearchIdAfter(user_input, SteamDbUrl)
    ELSE IF SearchIdAfter(user_input, CommunityUrl) # <<>>
    THEN SearchIdAfter(user_input, CommunityUrl)
    ELSE IF AllDigits(user_input) THEN user_input
    ELSE <<>>

\* str.strip() for the blank character
RECURSIVE Strip(_)
Strip(s) ==
    IF s = <<>> THEN s
    ELSE IF Head(s) = " " THEN Strip(Tail(s))
    ELSE IF s[Len(s)] = " " THEN Strip(SubSeq(s, 1, Len(s) - 1))
    ELSE s

\* the first loop of resolve_appids: the identifiers of the items that yield one
RECURSIVE ExtractAll(_)
ExtractAll(inputs) ==
    IF inputs = <<>> THEN <<>>
    ELSE LET item == Strip(Head(inputs))
             id == ExtractAppId(item)
         IN  IF item = <<>> \/ id = <<>> THEN ExtractAll(Tail(inputs))
             ELSE <<id>> \o ExtractAll(Tail(inputs))

\* the second loop of resolve_appids: drop the identifiers already seen
RECURSIVE Unique(_, _)
Unique(ids, seen) ==
    IF ids = <<>> THEN <<>>
    ELSE IF Head(ids) \in seen THEN Unique(Tail(ids), seen)
    ELSE <<Head(ids)>> \o Unique(Tail(ids), seen \cup {Head(ids)})

\* resolve_appids with a fault: the second loop is left out
ResolveAppidsKeepingAll(inputs) == ExtractAll(inputs)

ResolveAppids(inputs) == Unique(ExtractAll(inputs), {})

-----------------------------------------------------------------------------
(* File names and scripts *)

\* Path(path).name
BaseName(path) ==
    LET slashes == {i \in 1..Len(path) : path[i] = "/"}
    IN  IF slashes = {} THEN path
        ELSE Slice(path, (CHOOSE i \in slashes : \A j \in slashes : j <= i) + 1, Len(path))

\* re.search(r'(\d+)_(\w+)\.manifest', name): <<depot, token>>, or <<>> for no match
ManifestPin(name) ==
    LET ok(i) ==
            /\ IsDigit(name[i])
            /\ LET j == RunEnd(name, i, Digits)
                   k == RunEnd(name, j + 2, Digits \cup Lowers \cup Uppers \cup {"_"})
               IN  /\ j + 1 <= Len(name)
                   /\ name[j + 1] = "_"
                   /\ k >= j + 2
                   /\ MatchAt(name, k + 1, DotManifest)
        starts == {i \in 1..Len(name) : ok(i)}
    IN  IF starts = {} THEN <<>>
        ELSE LET i == Min(starts)
                 j == RunEnd(name, i, Digits)
                 k == RunEnd(name, j + 2, Digits \cup Lowers \cup Uppers \cup {"_"})
             IN  <<Slice(name, i, j), Slice(name, j + 2, k)>>

IsManifestPath(path) == EndsWith(path, DotManifest)
IsKeyPath(path) == Contains(Lower(path), KeyVdf)

\* The lines a script is made of.  A key line is addappid(id, 1, "key"); the
\* bootstrap line is the key line of the identifier with the key None; a pin
\* line is setManifestid(depot, "token"), written after "--" when commented.
KeyLine(id, key) == [op |-> "addappid", id |-> id, flag |-> "1", key |-> key]
BootLine(app_id) == KeyLine(app_id, <<"N", "o", "n", "e">>)
\* the pin line with a fault: the two groups of the match are swapped
PinLineSwapped(pin, commented) ==
    [op |-> "setManifestid", id |-> pin[2], token |-> pin[1], commented |-> commented]

PinLine(pin, commented) ==
    [op |-> "setManifestid", id |-> pin[1], token |-> pin[2], commented |-> commented]

\* the pin lines of the manifest names that match the grammar, in list order
RECURSIVE PinLines(_, _)
PinLines(names, commented) ==
    IF names = <<>> THEN <<>>
    ELSE LET pin == ManifestPin(Head(names))
         IN  (IF pin = <<>> THEN <<>> ELSE <<PinLine(pin, commented)>>)
             \o PinLines(Tail(names), commented)

\* the pin lines with a fault: commented whenever auto-update is on
FloatingIgnoringLock(auto_update, lock) == auto_update

\* is_floating_version
Floating(auto_update, lock) == auto_update /\ ~lock

\* the script written on the tree path and on the archive path
ScriptOf(app_id, depots, manifests, floating) ==
    <<BootLine(app_id)>>
    \o [i \in 1..Len(depots) |-> KeyLine(depots[i].id, depots[i].key)]
    \o PinLines(manifests, floating)

-----------------------------------------------------------------------------
(* The Steam directory, as the pipeline reads and writes it *)

\* dict.update on an ordered dict kept as a sequence of [id, key] entries: an
\* existing id keeps its place and takes the new key, a new id is appended
RECURSIVE DictUpdate(_, _)
DictUpdate(d, new) ==
    IF new = <<>> THEN d
    ELSE LET e == Head(new)
             at == {i \in 1..Len(d) : d[i].id = e.id}
         IN  DictUpdate(IF at = {} THEN Append(d, e)
                        ELSE [i \in 1..Len(d) |-> IF i \in at THEN e ELSE d[i]],
                        Tail(new))

DictIds(d) == {d[i].id : i \in 1..Len(d)}

NoFile == <<>>
AllIds == {Id480, Id620}

\* config.vdf: missing, unparsable, or an object with one section under
\* InstallConfigStore/Software (sect is its name as spelled in the file, "none"
\* when there is none), which holds other keys or not and a depots map or not.
ConfigMissing == [kind |-> "missing"]
ConfigCorrupt == [kind |-> "corrupt"]
ConfigOk(sect, other, has_depots, depots) ==
    [kind |-> "ok", sect |-> sect, other |-> other, has_depots |-> has_depots,
     depots |-> depots]

\* the section lookup with a fault: only the capitalised name is tried
SectionFoundCapitalOnly(config) ==
    /\ config.sect = "Valve"
    /\ (config.other \/ config.has_depots)

\* .get('Valve') or .get('valve'), then `if not steam_section`
SectionFound(config) ==
    /\ config.sect \in {"Valve", "valve"}
    /\ (config.other \/ config.has_depots)

\* depotkey_merge with a fault: the depots map is replaced by the new keys
DepotkeyMergeReplacing(fs, new_depots) ==
    IF fs.config.kind # "ok" \/ ~SectionFound(fs.config)
    THEN [fs |-> fs, ok |-> FALSE]
    ELSE [fs |-> [fs EXCEPT
                    !.backup = IF fs.backup.kind = "missing" THEN fs.config ELSE @,
                    !.config = [fs.config EXCEPT !.has_depots = TRUE,
                                                 !.depots = new_depots]],
          ok |-> TRUE]

\* depotkey_merge with a fault: the new keys are appended below the old ones
DepotkeyMergeAppending(fs, new_depots) ==
    IF fs.config.kind # "ok" \/ ~SectionFound(fs.config)
    THEN [fs |-> fs, ok |-> FALSE]
    ELSE [fs |-> [fs EXCEPT
                    !.backup = IF fs.backup.kind = "missing" THEN fs.config ELSE @,
                    !.config = [fs.config EXCEPT
                                   !.has_depots = TRUE,
                                   !.depots = (IF fs.config.has_depots THEN @ ELSE <<>>)
                                              \o new_depots]],
          ok |-> TRUE]

\* depotkey_merge with a fault: the backup and the depots map are made before
\* the section is looked up
DepotkeyMergeWritingFirst(fs, new_depots) ==
    IF fs.config.kind # "ok"
    THEN [fs |-> fs, ok |-> FALSE]
    ELSE [fs |-> [fs EXCEPT
                    !.backup = IF fs.backup.kind = "missing" THEN fs.config ELSE @,
                    !.config = [fs.config EXCEPT
                                   !.has_depots = TRUE,
                                   !.depots = DictUpdate(
                                       IF fs.config.has_depots THEN @ ELSE <<>>,
                                       new_depots)]],
          ok |-> SectionFound(fs.config)]

\* depotkey_merge: the directory after the call and the value returned
DepotkeyMerge(fs, new_depots) ==
    IF fs.config.kind # "ok" \/ ~SectionFound(fs.config)
    THEN [fs |-> fs, ok |-> FALSE]
    ELSE [fs |-> [fs EXCEPT
                    !.backup = IF fs.backup.kind = "missing" THEN fs.config ELSE @,
                    !.config = [fs.config EXCEPT
                                   !.has_depots = TRUE,
                                   !.depots = DictUpdate(
                                       IF fs.config.has_depots THEN @ ELSE <<>>,
                                       new_depots)]],
          ok |-> TRUE]

\* greenluma_add: one marker file per all-digit id
GreenlumaAdd(fs, ids) ==
    [fs EXCEPT !.applist = @ \cup {ids[i] : i \in {j \in 1..Len(ids) : AllDigits(ids[j])}}]

-----------------------------------------------------------------------------
(* Quota gate: check_github_api_rate_limit *)

\* the answer of the rate_limit endpoint: the request raises, answers an error
\* status, or answers an object that carries a remaining count or not
RateAnswers ==
    [kind : {"exc", "status"}, has_remaining : {FALSE}, remaining : {0}]
    \cup [kind : {"ok"}, has_remaining : {FALSE}, remaining : {0}]
    \cup [kind : {"ok"}, has_remaining : {TRUE}, remaining : {0, 1}]

\* the quota check with a fault: a failed request lets the batch go on
CheckRateLimitFailOpen(answer) ==
    IF answer.kind # "ok" THEN TRUE
    ELSE (IF answer.has_remaining THEN answer.remaining ELSE 0) # 0

CheckRateLimit(answer) ==
    IF answer.kind # "ok" THEN FALSE
    ELSE (IF answer.has_remaining THEN answer.remaining ELSE 0) # 0

-----------------------------------------------------------------------------
(* Tree Retrieval Engine: the per-entry handler get_manifest_from_github *)

IsSteamtools(cfg) == cfg.unlocker_type = "steamtools"

\* the mode with a fault: the setting counts whatever the unlocker is
AutoUpdateModeAnyUnlocker(cfg) == cfg.only_lua

\* is_st_auto_update_mode
AutoUpdateMode(cfg) == IsSteamtools(cfg) /\ cfg.only_lua

\* What a key-config file holds: bytes that are no UTF-8 ("badutf8"), text that
\* is no VDF ("syntax"), or a VDF object with a depots map or without one; an
\* entry of the map has a DecryptionKey or not.
KeyContentOk(has_depots, depots) ==
    [kind |-> "ok", has_depots |-> has_depots, depots |-> depots]

\* the (depot_id, key) pairs of a parsed key config
DepotPairs(content) ==
    IF content.has_depots
    THEN [i \in 1..Len(content.depots) |->
            [id |-> content.depots[i].id, key |-> content.depots[i].key]]
    ELSE <<>>

\* the entries that return before their first await: manifests in auto-update mode
SkipsDownload(cfg, path) == IsManifestPath(path) /\ AutoUpdateMode(cfg)

Returned(fs, depots) == [fs |-> fs, raised |-> FALSE, depots |-> depots]
Raised(fs) == [fs |-> fs, raised |-> TRUE, depots |-> <<>>]

\* the handler with a fault: a failed download is raised to the caller
HandlerRaisingOnDownload(fs, cfg, path, app_id, all_manifests, dl, content) ==
    IF dl.raised THEN Raised(fs) ELSE Returned(fs, <<>>)

\* get_manifest_from_github from the download on: dl is the outcome of
\* get_from_url, content what the file holds
Handler(fs, cfg, path, app_id, all_manifests, dl, content) ==
    IF SkipsDownload(cfg, path) THEN Returned(fs, <<>>)
    ELSE IF dl.raised THEN Returned(fs, <<>>)
    ELSE IF IsManifestPath(path) /\ ~AutoUpdateMode(cfg)
    THEN Returned([fs EXCEPT !.stplug = TRUE,
                             !.depotcache = @ \cup {BaseName(path)},
                             !.cfgdepotcache = @ \cup {BaseName(path)}],
                  <<>>)
    ELSE IF IsKeyPath(path)
    THEN CASE content.kind = "badutf8" -> Returned(fs, <<>>)
           [] content.kind = "syntax" -> Raised(fs)
           [] OTHER ->
                IF \E i \in 1..Len(DepotPairs(content)) : ~content.depots[i].has_key
                THEN Returned(fs, <<>>)
                ELSE IF IsSteamtools(cfg) /\ app_id # <<>>
                THEN IF ~fs.stplug
                     THEN Raised(fs)
                     ELSE Returned(
                            [fs EXCEPT !.lua[app_id] =
                                ScriptOf(app_id, DepotPairs(content), all_manifests,
                                         Floating(AutoUpdateMode(cfg), cfg.lock))],
                            DepotPairs(content))
                ELSE Returned(fs, DepotPairs(content))
    ELSE Returned(fs, <<>>)

\* the join with a fault: one failed task fails the identifier
CollectedFailFast(results) ==
    IF \E i \in 1..Len(results) : results[i].raised \/ results[i].failed THEN <<>>
    ELSE IF results = <<>> THEN <<>>
    ELSE LET RECURSIVE Cat(_)
             Cat(rs) == IF rs = <<>> THEN <<>> ELSE Head(rs).depots \o Cat(Tail(rs))
         IN  Cat(results)

\* the loop over the gathered results: exceptions are logged and skipped
Collected(results) ==
    LET RECURSIVE Cat(_)
        Cat(rs) == IF rs = <<>> THEN <<>>
                   ELSE (IF Head(rs).raised THEN <<>> ELSE Head(rs).depots) \o Cat(Tail(rs))
    IN  Cat(results)

\* the dict comprehension over collected_depots
DictOf(pairs) == DictUpdate(<<>>, pairs)

\* what a depotkey_merge call returned, for the record of the identifier
MergeResult(r) == IF r.ok THEN "ok" ELSE "failed"

\* process_github_repo after the join: the directory after it, its result, and
\* what depotkey_merge returned to it ("none" when it was not called)
AfterJoin(fs, cfg, app_id, results) ==
    LET collected == Collected(results)
    IN  IF collected = <<>> THEN [fs |-> fs, ok |-> FALSE, merged |-> "none"]
        ELSE IF IsSteamtools(cfg) THEN [fs |-> fs, ok |-> TRUE, merged |-> "none"]
        ELSE LET r == DepotkeyMerge(
                        GreenlumaAdd(fs, <<app_id>> \o [i \in 1..Len(collected) |->
                                                          collected[i].id]),
                        DictOf(collected))
             IN  [fs |-> r.fs, ok |-> TRUE, merged |-> MergeResult(r)]

-----------------------------------------------------------------------------
(* Archive Retrieval Engine: _process_zip_based_manifest *)

\* An archive, as extracted: the names of its top-level manifest files, its
\* script files (each a sequence of lines) and its container files, in the
\* order glob lists them.  A container converts to a script or fails to.
\* A line of a retrieved script is a key line in the three-argument form
\* (flag "1"), in the two-argument form addappid(id, "key") (flag "absent"),
\* or any other line (op "other").
\* A container file is the sequence of its bytes.

\* a ^ b on naturals
RECURSIVE BitXor(_, _)
BitXor(a, b) ==
    IF a = 0 THEN b
    ELSE IF b = 0 THEN a
    ELSE (((a % 2) + (b % 2)) % 2) + 2 * BitXor(a \div 2, b \div 2)

HeaderSize == 12
PrefixSize == 512

\* A 32-bit word is kept as its four bytes, lowest first, which is also the
\* order struct.unpack('III', ...) reads them in on the machines the
\* program runs on (x86, little-endian).
Word(content, n) == SubSeq(content, 4 * n - 3, 4 * n)

\* 0xFFFEA4C8
XorMask == <<200, 164, 254, 255>>

XorWord(w, v) == [i \in 1..4 |-> BitXor(w[i], v[i])]

\* the key with a fault: the top byte of the word is taken
EffectiveKeyTopByte(w) == XorWord(w, XorMask)[4]

\* xorkey ^= 0xFFFEA4C8; xorkey &= 0xFF
EffectiveKey(w) == XorWord(w, XorMask)[1]

\* the size field as a number; a size of 65536 or more is kept as 65536, which
\* is more than any file of the model holds
SizeOf(w) == IF w[3] # 0 \/ w[4] # 0 THEN 65536 ELSE w[1] + 256 * w[2]

\* for i in range(len(data)): data[i] ^= xorkey
XorBytes(data, xorkey) == [i \in 1..Len(data) |-> BitXor(data[i], xorkey)]

\* zlib.decompress is not the program's code: three byte strings stand for
\* the streams it accepts, and it raises zlib.error on every other one.  A
\* decompressed string is its number of bytes before the script, the script,
\* and whether it is UTF-8.
StreamScript == <<120, 156, 1>>
StreamShort == <<120, 156, 2>>
StreamBinary == <<120, 156, 3>>
DecodedScript == <<BootLine(Id480), KeyLine(Id481, KeyDeadbeef)>>
Decompress(data) ==
    CASE data = StreamScript -> [kind |-> "ok", head |-> PrefixSize, text |-> DecodedScript,
                                 utf8 |-> TRUE]
      [] data = StreamShort -> [kind |-> "ok", head |-> 100, text |-> <<>>, utf8 |-> TRUE]
      [] data = StreamBinary -> [kind |-> "ok", head |-> PrefixSize, text |-> <<>>,
                                 utf8 |-> FALSE]
      [] OTHER -> [kind |-> "error", head |-> 0, text |-> <<>>, utf8 |-> FALSE]

StRaised(stage, xorkey, data) ==
    [raised |-> TRUE, stage |-> stage, xorkey |-> xorkey, data |-> data, text |-> <<>>]

\* STConverter.parse_st_file: the script, or ValueError; the result also
\* carries the key and the bytes handed to zlib, where they were computed
ParseStFile(content) ==
    IF Len(content) < HeaderSize THEN StRaised("header", 0, <<>>)
    ELSE LET xorkey == EffectiveKey(Word(content, 1))
             size == SizeOf(Word(content, 2))
             encrypted_data == SubSeq(content, HeaderSize + 1,
                                      IF HeaderSize + size > Len(content)
                                      THEN Len(content) ELSE HeaderSize + size)
             data == XorBytes(encrypted_data, xorkey)
             decompressed_data == Decompress(data)
         IN  IF Len(encrypted_data) < size THEN StRaised("size", xorkey, <<>>)
             ELSE IF decompressed_data.kind # "ok" THEN StRaised("zlib", xorkey, data)
             ELSE IF ~decompressed_data.utf8 THEN StRaised("utf8", xorkey, data)
             ELSE [raised |-> FALSE, stage |-> "done", xorkey |-> xorkey, data |-> data,
                   text |-> IF decompressed_data.head >= PrefixSize
                            THEN decompressed_data.text ELSE <<>>]

\* convert_file inside the loop over st_files: a container that fails to
\* convert is logged and adds no script
ConvertFile(st) == IF ParseStFile(st).raised THEN <<>> ELSE <<ParseStFile(st).text>>

RECURSIVE ConvertAll(_)
ConvertAll(sts) == IF sts = <<>> THEN <<>> ELSE ConvertFile(Head(sts)) \o ConvertAll(Tail(sts))

\* re.finditer(r'addappid\((\d+),\s*1,\s*"([^"]+)"\)', content)
MatchesThreeArg(line) ==
    line.op = "addappid" /\ line.flag = "1" /\ AllDigits(line.id) /\ line.key # <<>>

\* re.finditer(r'addappid\((\d+),\s*"([^"]+)"\)', content)
MatchesTwoArg(line) ==
    line.op = "addappid" /\ line.flag = "absent" /\ AllDigits(line.id) /\ line.key # <<>>

\* all_depots after the loop over lua_files; three_arg selects the pattern
RECURSIVE ScanLines(_, _, _)
ScanLines(lines, three_arg, acc) ==
    IF lines = <<>> THEN acc
    ELSE LET l == Head(lines)
             hit == IF three_arg THEN MatchesThreeArg(l) ELSE MatchesTwoArg(l)
         IN  ScanLines(Tail(lines), three_arg,
                       IF hit THEN DictUpdate(acc, <<[id |-> l.id, key |-> l.key]>>) ELSE acc)

RECURSIVE ScanFiles(_, _, _)
ScanFiles(files, three_arg, acc) ==
    IF files = <<>> THEN acc
    ELSE ScanFiles(Tail(files), three_arg, ScanLines(Head(files), three_arg, acc))

SeqToSet(q) == {q[i] : i \in 1..Len(q)}

\* the SteamTools branch
ZipSteamtools(fs, cfg, app_id, manifests, lua_files) ==
    LET copied == IF AutoUpdateMode(cfg) THEN fs
                  ELSE [fs EXCEPT !.cfgdepotcache = @ \cup SeqToSet(manifests),
                                  !.depotcache = @ \cup SeqToSet(manifests)]
        all_depots == ScanFiles(lua_files, TRUE, <<>>)
    IN  [fs |-> [copied EXCEPT
                    !.stplug = TRUE,
                    !.lua[app_id] = ScriptOf(app_id, all_depots, manifests,
                                             Floating(AutoUpdateMode(cfg), cfg.lock))],
         ok |-> TRUE, merged |-> "none", exit |-> "success"]

\* the GreenLuma branch with a fault: an archive without manifests is served
\* like any other
ZipGreenlumaNoCheck(fs, app_id, manifests, lua_files) ==
    LET copied == [fs EXCEPT !.depotcache = @ \cup SeqToSet(manifests)]
        all_depots == ScanFiles(lua_files, FALSE, <<>>)
        r == DepotkeyMerge(copied, all_depots)
    IN  IF all_depots # <<>>
        THEN [fs |-> GreenlumaAdd(r.fs, <<app_id>> \o [i \in 1..Len(all_depots) |->
                                                         all_depots[i].id]),
              ok |-> TRUE, merged |-> MergeResult(r),
              exit |-> IF manifests = <<>> THEN "no_manifest" ELSE "success"]
        ELSE [fs |-> GreenlumaAdd(copied, <<app_id>>),
              ok |-> TRUE, merged |-> "none",
              exit |-> IF manifests = <<>> THEN "no_manifest" ELSE "success"]

\* the GreenLuma branch
ZipGreenluma(fs, app_id, manifests, lua_files) ==
    IF manifests = <<>>
    THEN [fs |-> fs, ok |-> FALSE, merged |-> "none", exit |-> "no_manifest"]
    ELSE LET copied == [fs EXCEPT !.depotcache = @ \cup SeqToSet(manifests)]
             all_depots == ScanFiles(lua_files, FALSE, <<>>)
             r == DepotkeyMerge(copied, all_depots)
         IN  IF all_depots # <<>>
             THEN [fs |-> GreenlumaAdd(r.fs, <<app_id>> \o [i \in 1..Len(all_depots) |->
                                                              all_depots[i].id]),
                   ok |-> TRUE, merged |-> MergeResult(r), exit |-> "success"]
             ELSE [fs |-> GreenlumaAdd(copied, <<app_id>>),
                   ok |-> TRUE, merged |-> "none", exit |-> "success"]

\* The scratch directory temp_cai_install: "absent", "stale" (there, with what
\* an earlier session left in it), "empty" (there, with nothing in it) or "used"
\* (there, with the archive of this run and what was extracted from it).

\* the start of _process_zip_based_manifest: rmtree if it exists, then mkdir
ZipStart(fs) == [fs EXCEPT !.temp = "empty"]

\* `finally: if self.temp_dir.exists(): shutil.rmtree(...)`
ZipFinally(fs) == [fs EXCEPT !.temp = "absent"]

\* the handler with a fault: the scratch directory is removed on the success
\* path only
ZipFinallyOnSuccess(out) ==
    [out EXCEPT !.fs.temp = IF out.ok THEN "absent" ELSE @]

\* the end of every path through the handler
ZipLeave(out) == [out EXCEPT !.fs = ZipFinally(out.fs)]

ZipFailed(fs, exit) == [fs |-> fs, ok |-> FALSE, merged |-> "none", exit |-> exit]

\* _process_zip_based_manifest from the answer to the archive request on: dl
\* is that answer ("exc", "status", or "ok" with the archive, which is corrupt
\* or extracts); dl.fault says that the first write into the Steam directory
\* raises.  The result carries the exit path taken.
ProcessZip(fs, cfg, app_id, dl) ==
    ZipLeave(
        IF dl.kind = "exc" THEN ZipFailed(fs, "exception")
        ELSE IF dl.kind = "status" THEN ZipFailed(fs, "status")
        ELSE IF ~dl.valid THEN ZipFailed([fs EXCEPT !.temp = "used"], "corrupt")
        ELSE LET lua_files == dl.luas \o ConvertAll(dl.sts)
                 extracted == [fs EXCEPT !.temp = "used"]
             IN  IF dl.fault THEN ZipFailed(extracted, "fault")
                 ELSE IF IsSteamtools(cfg)
                 THEN ZipSteamtools(extracted, cfg, app_id, dl.manifests, lua_files)
                 ELSE ZipGreenluma(extracted, app_id, dl.manifests, lua_files))

-----------------------------------------------------------------------------
(* The sources and the multi-repo ranking: repo_options, search_all_repos    *)

\* the values of frontend repo_options, in menu order
RepoOptions == <<"swa", "cysaw", "furcate", "cngs", "steamdatabase", "walftech",
                 "Auiowu/ManifestAutoUpdate", "SteamAutoCracks/ManifestHub">>

\* `is_github = repo_val not in [...]` of process_from_specific_repo
IsGithub(repo) ==
    repo \notin {"swa", "cysaw", "furcate", "cngs", "steamdatabase", "walftech"}

\* the github_repos list run_async_tasks hands to process_by_searching_all
GithubRepos ==
    SelectSeq(RepoOptions,
              LAMBDA val : val \notin {"swa", "cysaw", "furcate", "cngs", "steamdatabase"})

\* update_date is a string; the sort compares strings, character by character
Ord(c) == CHOOSE i \in 0..9 : <<"0", "1", "2", "3", "4", "5", "6", "7", "8", "9">>[i + 1] = c

RECURSIVE StrLess(_, _)
StrLess(a, b) ==
    IF b = <<>> THEN FALSE
    ELSE IF a = <<>> THEN TRUE
    ELSE IF Head(a) # Head(b) THEN Ord(Head(a)) < Ord(Head(b))
    ELSE StrLess(Tail(a), Tail(b))

\* list.sort(key=update_date, reverse=True): stable, so equal dates keep the
\* order in which the sources were searched
RECURSIVE SortDesc(_)
SortDesc(found) ==
    IF found = <<>> THEN <<>>
    ELSE LET e == found[Len(found)]
             before == SortDesc(SubSeq(found, 1, Len(found) - 1))
             keep == {i \in 1..Len(before) : ~StrLess(before[i].date, e.date)}
             n == Cardinality(keep)
         IN  SubSeq(before, 1, n) \o <<e>> \o SubSeq(before, n + 1, Len(before))

\* the selection with a fault: the first source that answered is taken
SelectedFirstFound(found) == found[1]

\* repo_results.sort(...); selected = repo_results[0]
Selected(found) == SortDesc(found)[1]

-----------------------------------------------------------------------------
(* The remote answers the model draws from *)

MaxTree == 3

SamplePaths == <<Path480Abc, Path481Def, PathKey, PathReadme, PathNoPin>>

\* the trees of at most MaxTree entries, in the order of SamplePaths
Trees ==
    {SelectSeq(SamplePaths, LAMBDA q : q \in S) :
        S \in {T \in SUBSET SeqToSet(SamplePaths) : Cardinality(T) <= MaxTree}}

BatchTrees == {<<Path480Abc, PathKey>>}

Dates == {<<"0", "9">>, <<"1", "0">>}

\* the answer to a branch request: none (request failed or error status), an
\* empty object, an object without 'commit', one whose 'commit' lacks the
\* nested commit.tree.url, one that lacks commit.author.date, or a full one
BranchAnswers ==
    [kind : {"fail", "empty", "nocommit", "malformed", "nodate"}, date : {<<>>}]
    \cup [kind : {"ok"}, date : Dates]

\* the answer to a tree request: none, an object without 'tree', or a tree
TreeAnswers(trees) ==
    [kind : {"fail", "notree"}, tree : {<<>>}] \cup [kind : {"ok"}, tree : trees]

E481 == [id |-> Id481, key |-> KeyDeadbeef, has_key |-> TRUE]
E480 == [id |-> Id480, key |-> KeyCafe, has_key |-> TRUE]
E481NoKey == [id |-> Id481, key |-> <<>>, has_key |-> FALSE]

KeyContents ==
    {[kind |-> "badutf8", has_depots |-> FALSE, depots |-> <<>>],
     [kind |-> "syntax", has_depots |-> FALSE, depots |-> <<>>],
     KeyContentOk(FALSE, <<>>), KeyContentOk(TRUE, <<>>),
     KeyContentOk(TRUE, <<E481>>), KeyContentOk(TRUE, <<E481NoKey>>),
     KeyContentOk(TRUE, <<E481, E480>>)}

\* how a candidate URL answers a content request
DownloadKinds == {"200", "exc"}

Bytes == [kind |-> "bytes", has_depots |-> FALSE, depots |-> <<>>]

ContentsOf(path, keys) == IF IsKeyPath(path) THEN keys ELSE {Bytes}

\* a retrieved script: lines in the three-argument form, in the two-argument
\* form, and lines that are no key lines
Script3 == <<BootLine(Id480), KeyLine(Id481, KeyDeadbeef), PinLine(<<Id481, TokDef>>, FALSE)>>
Script2 == <<[op |-> "addappid", id |-> Id481, flag |-> "absent", key |-> KeyCafe]>>

\* a container file with the key seed `seed` (a word), the size field `size`
\* (below 256), a zero third word and the payload `body`
StFile(seed, size, body) == seed \o <<size, 0, 0, 0>> \o <<0, 0, 0, 0>> \o body

\* a container that decodes to DecodedScript, and one that is cut short
GoodSt == StFile(<<1, 0, 0, 0>>, 3, XorBytes(StreamScript, 201))
TruncatedSt == StFile(<<1, 0, 0, 0>>, 3, <<177, 85>>)

NoArchive == [kind |-> None]

ZipAnswers ==
    [kind : {"exc", "status"}, valid : {FALSE}, fault : {FALSE}, manifests : {<<>>},
     luas : {<<>>}, sts : {<<>>}]
    \cup [kind : {"ok"}, valid : {FALSE}, fault : {FALSE}, manifests : {<<>>},
          luas : {<<>>}, sts : {<<>>}]
    \cup [kind : {"ok"}, valid : {TRUE}, fault : {TRUE}, manifests : {<<Path480Abc>>},
          luas : {<<Script3>>}, sts : {<<>>}]
    \cup [kind : {"ok"}, valid : {TRUE}, fault : {FALSE},
          manifests : {<<>>, <<Path480Abc>>, <<Path480Abc, PathNoPin>>},
          luas : {<<>>, <<Script3>>, <<Script2>>},
          sts : {<<>>, <<TruncatedSt>>, <<GoodSt>>}]

\* the settings: the unlocker, steamtools_only_lua and st_lock_manifest_version
Cfgs ==
    [unlocker_type : {"steamtools"}, only_lua : BOOLEAN, lock : BOOLEAN]
    \cup [unlocker_type : {"greenluma"}, only_lua : {FALSE}, lock : {FALSE}]

EmptyDir ==
    [stplug |-> FALSE, lua |-> [a \in AllIds |-> NoFile], depotcache |-> {},
     cfgdepotcache |-> {}, applist |-> {}, config |-> ConfigMissing,
     backup |-> ConfigMissing, temp |-> "absent"]

\* the scratch directory before a run of `drv` from source `repo`: only the
\* archive engine touches it, and a session that was killed leaves it behind
ScratchBefore(drv, repo) ==
    IF drv = "specific" /\ ~IsGithub(repo) THEN {"absent", "stale"} ELSE {"absent"}

NoSection == ConfigOk("none", FALSE, FALSE, <<>>)

\* the Steam directory before a run: with SteamTools the plugin directory
\* exists or not, with GreenLuma the core config is missing, lacks the vendor
\* section or holds it
Dirs(cfg) ==
    IF IsSteamtools(cfg)
    THEN {[EmptyDir EXCEPT !.stplug = s] : s \in BOOLEAN}
    ELSE {[EmptyDir EXCEPT !.config = c] :
            c \in {ConfigMissing, NoSection, ConfigOk("Valve", TRUE, FALSE, <<>>)}}

-----------------------------------------------------------------------------
(* The batch drivers: process_from_specific_repo, process_by_searching_all  *)

NoCur == [repo |-> None, tree |-> <<>>, date |-> <<>>, rIdx |-> 0, found |-> <<>>,
          queried |-> <<>>, archive |-> NoArchive, exit |-> None, merged |-> "none",
          before |-> EmptyDir]
NoGate == [asked |-> FALSE, answer |-> [kind |-> None], ok |-> FALSE]
NoStart == [unlocker_type |-> None, detected |-> None, chosen |-> FALSE]

\* the window as CaiInstallGUI.__init__ leaves it
NewGui ==
    [phase |-> "created", path |-> FALSE, dll |-> FALSE, detected |-> "undetected",
     chosen |-> FALSE, dialog |-> FALSE, process_button |-> TRUE,
     search_button |-> TRUE, processing_lock |-> FALSE, workers |-> {},
     after |-> {}, runs |-> 0, started |-> NoStart, click |-> None]

\* no driver is running
NoRun ==
    /\ conf = [unlocker_type |-> "steamtools", only_lua |-> FALSE, lock |-> FALSE]
    /\ disk = EmptyDir
    /\ driver = None
    /\ repo_val = None
    /\ app_id_inputs = <<>>
    /\ remote = [trees |-> {}, keys |-> {}]
    /\ pc = "done"
    /\ app_ids = <<>>
    /\ idx = 0
    /\ succeeded = <<>>
    /\ outcome = "pending"
    /\ requests = {}
    /\ gate = NoGate
    /\ cur = NoCur
    /\ tasks = <<>>
    /\ gui = NewGui

\* a driver has been called and has not run yet
RunInit ==
    /\ IS_CN = "unset"
    /\ last_detected_region = NoRegion
    /\ current_country = None
    /\ regionLog = {}
    /\ fcArgs = [state |-> "idle"]
    /\ fcOut = [state |-> "idle"]
    /\ pc = "start"
    /\ app_ids = <<>>
    /\ idx = 0
    /\ succeeded = <<>>
    /\ outcome = "pending"
    /\ requests = {}
    /\ gate = NoGate
    /\ cur = NoCur
    /\ tasks = <<>>
    /\ gui = NewGui

netVars == <<IS_CN, regionVars, fetchVars>>
setupVars == <<conf, driver, repo_val, app_id_inputs, remote, gui>>

AppId == app_ids[idx]
AllManifests(tree) == SelectSeq(tree, IsManifestPath)

\* the driver returns `value`
Return(value) ==
    /\ outcome' = (IF value THEN "true" ELSE "false")
    /\ pc' = "done"

\* resolve_appids, the empty check, and the choice of the next step
DriverStart ==
    /\ pc = "start"
    /\ app_ids' = ResolveAppids(app_id_inputs)
    /\ idx' = 1
    /\ IF app_ids' = <<>> THEN Return(FALSE)
       ELSE /\ pc' = (IF driver = "searchall" \/ IsGithub(repo_val) THEN "gate" ELSE "next")
            /\ UNCHANGED outcome
    /\ UNCHANGED <<netVars, setupVars, disk, succeeded, requests, gate, cur, tasks>>

\* the probe answers drawn at the gate: the first probe places the user in
\* mainland China or in the US, the second is not reached
GateKugouAnswers == {a \in KugouAnswers : a.kind = "ok" /\ a.country = "US"}
GateIpSbAnswers == {a \in IpSbAnswers : a.kind = "exc"}

\* checkcn(client), then check_github_api_rate_limit
Gate ==
    /\ pc = "gate"
    /\ \E a1 \in GateKugouAnswers, a2 \in GateIpSbAnswers, answer \in RateAnswers :
        /\ ApplyCheckCn(TRUE, <<a1, a2>>, "none")
        /\ gate' = [asked |-> TRUE, answer |-> answer, ok |-> CheckRateLimit(answer)]
        /\ IF CheckRateLimit(answer)
           THEN pc' = "next" /\ UNCHANGED outcome
           ELSE Return(FALSE)
    /\ requests' = requests \cup {"geo", "rate"}
    /\ UNCHANGED <<fetchVars, setupVars, disk, app_ids, idx, succeeded, cur, tasks>>

\* the identifier at hand is over with `success`; the loop goes on
Processed(success) ==
    /\ succeeded' = Append(succeeded, success)
    /\ idx' = idx + 1
    /\ pc' = "next"

\* process_github_repo up to the start of the gathered tasks
StartTasks(repo, tree, date) ==
    IF AllManifests(tree) = <<>>
    THEN Processed(FALSE) /\ tasks' = <<>>
    ELSE /\ tasks' = [i \in 1..Len(tree) |->
                        IF SkipsDownload(conf, tree[i])
                        THEN [st |-> "done", raised |-> FALSE, failed |-> FALSE,
                              depots |-> <<>>, content |-> Bytes]
                        ELSE [st |-> "pending", raised |-> FALSE, failed |-> FALSE,
                              depots |-> <<>>, content |-> Bytes]]
         /\ pc' = "tasks"
         /\ UNCHANGED <<succeeded, idx>>

\* one identifier of an archive source: _process_zip_based_manifest up to its
\* first await, the archive request
ZipBegin ==
    /\ pc = "next" /\ idx <= Len(app_ids)
    /\ driver = "specific" /\ ~IsGithub(repo_val)
    /\ disk' = ZipStart(disk)
    /\ pc' = "zip"
    /\ requests' = requests \cup {"archive"}
    /\ cur' = [NoCur EXCEPT !.repo = repo_val]
    /\ tasks' = <<>>
    /\ UNCHANGED <<netVars, setupVars, app_ids, idx, succeeded, outcome, gate>>

\* _process_zip_based_manifest from the answer to the archive request on
ZipIdentifier ==
    /\ pc = "zip"
    /\ \E dl \in ZipAnswers :
        LET out == ProcessZip(disk, conf, AppId, dl)
        IN  /\ disk' = out.fs
            /\ Processed(out.ok)
            /\ cur' = [cur EXCEPT !.archive = dl, !.exit = out.exit,
                                  !.merged = out.merged]
    /\ UNCHANGED <<netVars, setupVars, app_ids, outcome, requests, gate, tasks>>

\* one identifier of a GitHub source: the branch and tree requests of
\* process_github_repo; any exception is caught and fails the identifier
ResolveTree ==
    /\ pc = "next" /\ idx <= Len(app_ids)
    /\ driver = "specific" /\ IsGithub(repo_val)
    /\ \E branch \in BranchAnswers, t \in TreeAnswers(remote.trees) :
        /\ requests' = requests \cup {"branch"}
                       \cup (IF branch.kind = "ok" THEN {"tree"} ELSE {})
        /\ IF branch.kind = "ok" /\ t.kind = "ok"
           THEN /\ cur' = [NoCur EXCEPT !.repo = repo_val, !.tree = t.tree,
                                        !.date = branch.date, !.before = disk]
                /\ StartTasks(repo_val, t.tree, branch.date)
           ELSE /\ cur' = [NoCur EXCEPT !.repo = repo_val]
                /\ Processed(FALSE)
                /\ tasks' = <<>>
    /\ UNCHANGED <<netVars, setupVars, disk, app_ids, outcome, gate>>

\* the loop of search_all_repos is over
SearchDone(rIdx) == rIdx > Len(GithubRepos)

\* the driver is left by an exception
Raise ==
    /\ outcome' = "raised"
    /\ pc' = "done"

\* one iteration of the loop of search_all_repos; it has no exception handler
SearchRepo ==
    /\ driver = "searchall"
    /\ \/ pc = "next" /\ idx <= Len(app_ids)
       \/ pc = "search" /\ ~SearchDone(cur.rIdx)
    /\ LET r == IF pc = "next" THEN 1 ELSE cur.rIdx
           found == IF pc = "next" THEN <<>> ELSE cur.found
           queried == IF pc = "next" THEN <<>> ELSE cur.queried
           repo == GithubRepos[r]
       IN  \E branch \in BranchAnswers, t \in TreeAnswers(remote.trees) :
            LET has_url == branch.kind \in {"nodate", "ok"}
                has_tree == has_url /\ t.kind = "ok"
            IN  /\ requests' = requests \cup {"branch"}
                               \cup (IF has_url THEN {"tree"} ELSE {})
                /\ cur' = [NoCur EXCEPT
                              !.rIdx = r + 1,
                              !.queried = Append(queried, repo),
                              !.found = IF has_tree /\ branch.kind = "ok"
                                        THEN Append(found, [repo |-> repo, tree |-> t.tree,
                                                            date |-> branch.date])
                                        ELSE found]
                /\ IF branch.kind = "malformed" \/ (has_tree /\ branch.kind = "nodate")
                   THEN Raise
                   ELSE pc' = "search" /\ UNCHANGED outcome
    /\ tasks' = <<>>
    /\ UNCHANGED <<netVars, setupVars, disk, app_ids, idx, succeeded, gate>>

\* after the search: nothing found, or the ranking and process_github_repo
\* with the selected result as existing_data
SearchSelect ==
    /\ driver = "searchall"
    /\ pc = "search" /\ SearchDone(cur.rIdx)
    /\ IF cur.found = <<>>
       THEN /\ Processed(FALSE)
            /\ UNCHANGED <<cur, tasks>>
       ELSE LET selected == Selected(cur.found)
            IN  /\ cur' = [cur EXCEPT !.repo = selected.repo, !.tree = selected.tree,
                                      !.date = selected.date, !.before = disk]
                /\ StartTasks(selected.repo, selected.tree, selected.date)
    /\ UNCHANGED <<netVars, setupVars, disk, app_ids, outcome, requests, gate>>

\* one gathered task runs from its download to its end
TaskComplete ==
    /\ pc = "tasks"
    /\ \E i \in 1..Len(tasks) :
        /\ tasks[i].st = "pending"
        /\ \E kinds \in [Hosts -> DownloadKinds], content \in ContentsOf(cur.tree[i], remote.keys) :
            LET resp == [h \in Hosts |-> [kind |-> kinds[h], body |-> content]]
                dl == GetFromUrl(IS_CN, cur.repo, "sha", cur.tree[i], resp)
                out == Handler(disk, conf, cur.tree[i], AppId, AllManifests(cur.tree),
                               dl, content)
            IN  /\ disk' = out.fs
                /\ tasks' = [tasks EXCEPT ![i] =
                                [st |-> "done", raised |-> out.raised,
                                 failed |-> dl.raised, depots |-> out.depots,
                                 content |-> content]]
    /\ requests' = requests \cup {"content"}
    /\ UNCHANGED <<netVars, setupVars, pc, app_ids, idx, succeeded, outcome, gate, cur>>

\* gather has returned: the succeeded are collected and the unlocker is served
Join ==
    /\ pc = "tasks"
    /\ \A i \in 1..Len(tasks) : tasks[i].st = "done"
    /\ LET out == AfterJoin(disk, conf, AppId, tasks)
       IN  /\ disk' = out.fs
           /\ Processed(out.ok)
           /\ cur' = [cur EXCEPT !.merged = out.merged]
    /\ UNCHANGED <<netVars, setupVars, app_ids, outcome, requests, gate, tasks>>

\* the loop over the identifiers is over
Finish ==
    /\ pc = "next" /\ idx > Len(app_ids)
    /\ Return(\E i \in 1..Len(succeeded) : succeeded[i])
    /\ UNCHANGED <<netVars, setupVars, disk, app_ids, idx, succeeded, requests, gate, cur,
                   tasks>>

-----------------------------------------------------------------------------
(* Specification SpecOne: one identifier through process_from_specific_repo, *)
(* from an archive source or a GitHub source                                 *)

InitOne ==
    /\ RunInit
    /\ driver = "specific"
    /\ repo_val \in {"swa", "SteamAutoCracks/ManifestHub"}
    /\ app_id_inputs = <<StoreUrl \o Id480>>
    /\ remote = [trees |-> Trees, keys |-> KeyContents]
    /\ conf \in Cfgs
    /\ \E d \in Dirs(conf), t \in ScratchBefore(driver, repo_val) :
         disk = [d EXCEPT !.temp = t]

NextOne ==
    \/ DriverStart
    \/ Gate
    \/ ZipBegin
    \/ ZipIdentifier
    \/ ResolveTree
    \/ TaskComplete
    \/ Join
    \/ Finish

SpecOne == InitOne /\ [][NextOne]_vars

-----------------------------------------------------------------------------
(* Specification SpecBatch: two identifiers through either batch driver      *)

InitBatch ==
    /\ RunInit
    /\ driver \in {"specific", "searchall"}
    /\ repo_val \in {"swa", "SteamAutoCracks/ManifestHub"}
    /\ driver = "searchall" => repo_val = "swa"
    /\ app_id_inputs = <<Id480, SteamDbUrl \o Id620>>
    /\ remote = [trees |-> BatchTrees, keys |-> KeyContents]
    /\ conf \in {c \in Cfgs : ~c.lock}
    /\ \E d \in Dirs(conf), t \in ScratchBefore(driver, repo_val) :
         disk = [d EXCEPT !.temp = t]

NextBatch ==
    \/ DriverStart
    \/ Gate
    \/ ZipBegin
    \/ ZipIdentifier
    \/ ResolveTree
    \/ SearchRepo
    \/ SearchSelect
    \/ TaskComplete
    \/ Join
    \/ Finish

SpecBatch == InitBatch /\ [][NextBatch]_vars

-----------------------------------------------------------------------------
(* Specification SpecNet: checkcn calls interleaved with get_from_url calls, *)
(* as the drivers and the update check make them.                           *)

Idle == [state |-> "idle"]

FetchBodies == {"body1", "body2"}
FetchAnswers == [kind : {"200"}, body : FetchBodies]
                \cup [kind : {"status", "exc"}, body : {None}]
FetchPaths == {PathKey, Path480Abc}

InitNet ==
    /\ IS_CN = "unset"
    /\ last_detected_region = NoRegion
    /\ current_country = None
    /\ regionLog = {}
    /\ fcArgs = Idle
    /\ fcOut = Idle
    /\ NoRun

\* one checkcn call, from a driver (with its client) or without a client
CheckCnCall ==
    \E client_given \in BOOLEAN, exc \in {"none", "client", "log"},
       a1 \in KugouAnswers, a2 \in IpSbAnswers :
        /\ ApplyCheckCn(client_given, <<a1, a2>>, exc)
        /\ fcArgs' = [state |-> "checkcn",
                      failed |-> ProbeLoop(<<a1, a2>>)[1] = NoRegion,
                      detected |-> IF ~client_given /\ exc = "client" THEN NoRegion
                                   ELSE IF ProbeLoop(<<a1, a2>>)[1] = NoRegion
                                        THEN RegionCn
                                        ELSE ProbeLoop(<<a1, a2>>)[1],
                      raised |-> (exc = "client" /\ ~client_given)
                                 \/ (exc = "log" /\ "exception" \in regionLog'),
                      before |-> RegionState]
        /\ fcOut' = Idle
        /\ UNCHANGED <<conf, disk, runVars>>

\* one get_from_url call; the drivers make it only after checkcn has set IS_CN
GetFromUrlCall ==
    /\ IS_CN # "unset"
    /\ \E path \in FetchPaths, resp \in [Hosts -> FetchAnswers] :
        /\ fcArgs' = [state |-> "fetch", is_cn |-> IS_CN, path |-> path, resp |-> resp]
        /\ fcOut' = GetFromUrl(IS_CN, "repo", "sha", path, resp)
    /\ UNCHANGED <<IS_CN, regionVars, conf, disk, runVars>>

NextNet == CheckCnCall \/ GetFromUrlCall

SpecNet == InitNet /\ [][NextNet]_vars

-----------------------------------------------------------------------------
(* C2 *)

FetchCalled == fcArgs.state = "fetch"
FetchCandidates == CandidateUrls(fcArgs.is_cn, "repo", "sha", fcArgs.path)
FetchOkIndices ==
    {i \in 1..Len(FetchCandidates) : fcArgs.resp[FetchCandidates[i].host].kind = "200"}

\* C2: get_from_url returns the body of the first candidate, in list order, that
\* answers 200, whatever way the earlier candidates failed; it raises exactly when
\* no candidate answers 200.
C2_FirstOkWins ==
    FetchCalled =>
        IF FetchOkIndices = {}
        THEN fcOut.raised
        ELSE /\ ~fcOut.raised
             /\ fcOut.content = fcArgs.resp[FetchCandidates[Min(FetchOkIndices)].host].body

\* the mirror fallback happened: the first mirror timed out, the second answered
C2_Witness ==
    /\ FetchCalled
    /\ fcArgs.is_cn = "yes"
    /\ fcArgs.resp[MirrorHosts[1]].kind = "exc"
    /\ fcArgs.resp[MirrorHosts[2]].kind = "200"
    /\ ~fcOut.raised
    /\ fcOut.content = fcArgs.resp[MirrorHosts[2]].body

-----------------------------------------------------------------------------
(* C6 *)

CheckCnCalled == fcArgs.state = "checkcn"
AllProbesFailed ==
    /\ CheckCnCalled
    /\ ~fcArgs.raised
    /\ fcArgs.failed

\* C6 as stated: when every probe fails and a region was detected before, the
\* region flag keeps its previous value.
C6_KeepsPrevious ==
    (AllProbesFailed /\ fcArgs.before.last # NoRegion) =>
        /\ last_detected_region = fcArgs.before.last
        /\ IS_CN = fcArgs.before.is_cn

\* C6 amended: when every probe fails (and the call raises no internal
\* exception), the flag is set to the mirror-preferring region whether or not a
\* region was detected before.
C6_DefaultsToMirror ==
    AllProbesFailed => (last_detected_region = RegionCn /\ IS_CN = "yes")

\* a total probe failure after a non-mirror region had been detected
C6_Witness ==
    /\ AllProbesFailed
    /\ fcArgs.before.last = NotCn("US")
    /\ fcArgs.before.is_cn = "no"
    /\ last_detected_region = RegionCn
    /\ IS_CN = "yes"

-----------------------------------------------------------------------------
(* C1 *)

\* gather has returned for the identifier whose tasks are in `tasks`, and its
\* result is the last entry of `succeeded`
Joined ==
    /\ tasks # <<>>
    /\ pc \in {"next", "done"}
    /\ succeeded # <<>>

LastResult == succeeded[Len(succeeded)]

TaskFailed(i) == tasks[i].failed \/ tasks[i].raised
TaskYielded(i) == ~tasks[i].raised /\ tasks[i].depots # <<>>

\* C1 as stated: if the task of any one tree entry fails (its download fails on
\* every candidate URL, or its handler raises), process_github_repo returns
\* failure for the identifier.
C1_FailFast ==
    (Joined /\ \E i \in 1..Len(tasks) : TaskFailed(i)) => ~LastResult

\* C1, amended: a failed task does not by itself fail the identifier; it
\* contributes no depot key, and process_github_repo returns success exactly
\* when some task that did not raise yielded a depot key.
C1_BestEffort ==
    Joined =>
        /\ \A i \in 1..Len(tasks) : tasks[i].failed => ~TaskYielded(i)
        /\ LastResult <=> \E i \in 1..Len(tasks) : TaskYielded(i)

\* a task's download failed on every candidate, another yielded keys, and the
\* identifier succeeded
C1_Witness ==
    /\ Joined
    /\ \E i \in 1..Len(tasks) : tasks[i].failed
    /\ \E i \in 1..Len(tasks) : TaskYielded(i)
    /\ LastResult

-----------------------------------------------------------------------------
(* C3 *)

DriverDone == pc = "done" /\ driver # None

\* the loop over the identifiers has been entered
LoopEntered == app_ids # <<>> /\ (gate.asked => gate.ok)

\* C3: the identifiers are processed one at a time in resolved order, a failed
\* identifier does not keep a later one from being processed, and the driver
\* returns success exactly when at least one identifier succeeded.
C3_BatchContinues ==
    /\ Len(succeeded) = (IF pc \in {"start", "gate"} THEN 0 ELSE idx - 1)
    /\ (DriverDone /\ LoopEntered) =>
        /\ Len(succeeded) = Len(app_ids)
        /\ outcome = (IF \E i \in 1..Len(succeeded) : succeeded[i] THEN "true" ELSE "false")

-----------------------------------------------------------------------------
(* C4 *)

\* C4: no exception escapes process_from_specific_repo or
\* process_by_searching_all, whatever the remote answers, a branch or tree
\* answer that lacks the expected fields included.
C4_NoEscape == outcome # "raised"

-----------------------------------------------------------------------------
(* C5 *)

ReportsZero(answer) ==
    answer.kind = "ok" /\ answer.has_remaining /\ answer.remaining = 0

TreeRequests == {"branch", "tree", "content"}

\* C5 as stated: check_github_api_rate_limit returns false when the reported
\* remaining quota is zero and true in every other case, a failed request and
\* an answer without a remaining count included.
C5_FalseOnlyOnZero ==
    gate.asked => (gate.ok <=> ~ReportsZero(gate.answer))

\* C5, amended: check_github_api_rate_limit returns true exactly when the
\* request succeeds and reports a remaining count other than zero; when it
\* returns false the driver returns false and no branch, tree or content
\* request has been issued.
C5_TrueOnlyOnQuota ==
    gate.asked =>
        /\ gate.ok <=> /\ gate.answer.kind = "ok"
                       /\ gate.answer.has_remaining
                       /\ gate.answer.remaining # 0
        /\ ~gate.ok => /\ pc = "done" /\ outcome = "false"
                       /\ succeeded = <<>>
                       /\ requests \cap TreeRequests = {}

\* the quota request failed and the batch was aborted
C5_Witness ==
    /\ gate.asked /\ gate.answer.kind = "exc"
    /\ ~gate.ok /\ pc = "done" /\ outcome = "false"

-----------------------------------------------------------------------------
(* C7 *)

\* the instant an update_date denotes
RECURSIVE Instant(_)
Instant(date) ==
    IF date = <<>> THEN 0
    ELSE 10 * Instant(SubSeq(date, 1, Len(date) - 1)) + Ord(date[Len(date)])

\* a result of the search has been handed to process_github_repo
Ranked == driver = "searchall" /\ cur.repo # None

\* C7: when the ranking hands a result to process_github_repo, every source of
\* github_repos has been queried, the result is the most recent of those
\* found, and of the results that share the most recent date it is the one
\* found first (the sources are searched in list order).
C7_MostRecentFirst ==
    Ranked =>
        /\ cur.queried = GithubRepos
        /\ \E k \in 1..Len(cur.found) :
            /\ cur.repo = cur.found[k].repo
            /\ cur.tree = cur.found[k].tree
            /\ cur.date = cur.found[k].date
            /\ \A j \in 1..Len(cur.found) :
                Instant(cur.found[j].date) <= Instant(cur.found[k].date)
            /\ \A j \in 1..(k - 1) :
                Instant(cur.found[j].date) < Instant(cur.found[k].date)

\* three sources answered, the first with an older date than the other two,
\* which share a date; the second was selected
C7_Witness ==
    /\ Ranked
    /\ Len(cur.found) = 3
    /\ Instant(cur.found[1].date) < Instant(cur.found[2].date)
    /\ cur.found[2].date = cur.found[3].date
    /\ cur.repo = cur.found[2].repo

-----------------------------------------------------------------------------
(* C9 *)

PinsOf(script) == SelectSeq(script, LAMBDA l : l.op = "setManifestid")
ScriptsWritten == {a \in AllIds : disk.lua[a] # NoFile}

\* C9: in every script written, on the tree path and on the archive path, the
\* pin lines are comments exactly when the unlocker is SteamTools,
\* steamtools_only_lua is on and st_lock_manifest_version is off; otherwise
\* every pin line is active.
C9_PinsCommentedIffFloating ==
    \A a \in ScriptsWritten :
        \A i \in 1..Len(PinsOf(disk.lua[a])) :
            PinsOf(disk.lua[a])[i].commented
                <=> (IsSteamtools(conf) /\ conf.only_lua /\ ~conf.lock)

\* a script with a commented pin line written on the tree path
C9_Witness ==
    /\ IsGithub(repo_val)
    /\ \E a \in ScriptsWritten :
        /\ PinsOf(disk.lua[a]) # <<>>
        /\ PinsOf(disk.lua[a])[1].commented

\* the other cases of C9: an active pin on the tree path with the lock on, and
\* a commented and an active pin on the archive path
C9_TreeLocked ==
    /\ IsGithub(repo_val) /\ conf.only_lua /\ conf.lock
    /\ \E a \in ScriptsWritten :
        PinsOf(disk.lua[a]) # <<>> /\ ~PinsOf(disk.lua[a])[1].commented
C9_ArchiveFloating ==
    /\ ~IsGithub(repo_val)
    /\ \E a \in ScriptsWritten :
        PinsOf(disk.lua[a]) # <<>> /\ PinsOf(disk.lua[a])[1].commented
C9_ArchiveLocked ==
    /\ ~IsGithub(repo_val)
    /\ \E a \in ScriptsWritten :
        PinsOf(disk.lua[a]) # <<>> /\ ~PinsOf(disk.lua[a])[1].commented

-----------------------------------------------------------------------------
(* C10 *)

\* identifier 480, the tree of 480_abc.manifest and a key config, SteamTools
\* with locked pins, and the key task has parsed 481:deadbeef
EndToEnd480 ==
    /\ driver = "specific" /\ IsGithub(repo_val)
    /\ app_ids = <<Id480>>
    /\ cur.tree = <<Path480Abc, PathKey>>
    /\ IsSteamtools(conf) /\ ~(conf.only_lua /\ ~conf.lock)
    /\ tasks # <<>>
    /\ tasks[2].st = "done" /\ ~tasks[2].raised
    /\ tasks[2].depots = <<[id |-> Id481, key |-> KeyDeadbeef]>>

PinActive(depot, token) ==
    [op |-> "setManifestid", id |-> depot, token |-> token, commented |-> FALSE]

\* C10 as stated: the script is exactly the bootstrap line of 480, the key line
\* of 481 with deadbeef, and an active pin of depot 481 with token abc.
C10_PinNamesKeyDepot ==
    EndToEnd480 =>
        disk.lua[Id480] = <<BootLine(Id480), KeyLine(Id481, KeyDeadbeef),
                            PinActive(Id481, TokAbc)>>

\* C10, amended: the script is exactly the bootstrap line of 480, the key line
\* of 481 with deadbeef, and an active pin of depot 480, the depot the
\* manifest's file name carries, with token abc.
C10_PinNamesManifestDepot ==
    EndToEnd480 =>
        disk.lua[Id480] = <<BootLine(Id480), KeyLine(Id481, KeyDeadbeef),
                            PinActive(Id480, TokAbc)>>

C10_Witness == EndToEnd480 /\ pc = "done" /\ outcome = "true"

-----------------------------------------------------------------------------
(* The window: detect_unlocker, update_unlocker_status, the manual selection *)
(* dialog, start_processing and its worker, start_game_search               *)

MaxRuns == 2

\* detect_unlocker, for a Steam path that exists: the status it returns
DetectUnlocker(stplug_in, greenluma_dll) ==
    IF stplug_in /\ greenluma_dll THEN "conflict"
    ELSE IF stplug_in THEN "steamtools"
    ELSE IF greenluma_dll THEN "greenluma"
    ELSE "none"

\* update_unlocker_status on window g with settings c: the dialog it opens is
\* not modal, so it returns to the event loop with the dialog open
UpdateUnlockerStatus(g, c) ==
    IF ~g.path THEN [gui |-> [g EXCEPT !.detected = "nopath"], conf |-> c]
    ELSE LET status == DetectUnlocker(disk.stplug, g.dll)
         IN  CASE status = "conflict" ->
                    [gui |-> [g EXCEPT !.detected = status, !.process_button = FALSE],
                     conf |-> c]
               [] status = "none" ->
                    [gui |-> [g EXCEPT !.detected = status, !.dialog = TRUE], conf |-> c]
               [] OTHER ->
                    [gui |-> [g EXCEPT !.detected = status],
                     conf |-> [c EXCEPT !.unlocker_type = status]]

\* the guard of start_processing with a fault: the unlocker is not looked at
UnlockerDeterminedOrNot(unlocker_type) == TRUE

\* `if not self.backend.unlocker_type` of start_processing, negated
UnlockerDetermined(unlocker_type) == unlocker_type # None

\* the lock with a fault: every acquire succeeds
AcquiredAlways(lock) == TRUE

\* processing_lock.acquire(blocking=False) on a lock that is held (lock) or free
Acquired(lock) == ~lock

workerVars == <<pc, app_ids, idx, succeeded, outcome, requests, gate, cur, tasks>>
callVars == <<driver, repo_val, app_id_inputs>>

\* initialize_app, run once by the event loop
InitializeApp ==
    /\ gui.phase = "created"
    /\ LET out == UpdateUnlockerStatus([gui EXCEPT !.phase = "ready"], conf)
       IN  gui' = out.gui /\ conf' = out.conf
    /\ UNCHANGED <<netVars, disk, remote, callVars, workerVars>>

\* a choice in the manual selection dialog: handle_manual_selection records it
\* and calls update_unlocker_status again
DialogPick ==
    /\ gui.dialog
    /\ \E choice \in {"steamtools", "greenluma"} :
        LET out == UpdateUnlockerStatus([gui EXCEPT !.dialog = FALSE, !.chosen = TRUE],
                                        [conf EXCEPT !.unlocker_type = choice])
        IN  gui' = out.gui /\ conf' = out.conf
    /\ UNCHANGED <<netVars, disk, remote, callVars, workerVars>>

\* the dialog is closed without a choice
DialogClose ==
    /\ gui.dialog
    /\ gui' = [gui EXCEPT !.dialog = FALSE, !.process_button = FALSE]
    /\ UNCHANGED <<netVars, conf, disk, remote, callVars, workerVars>>

\* the entry field, split at commas; empty stands for a blank field
EntryTexts == {<<>>, <<Id480>>}
TabRepos == {<<0, "SteamAutoCracks/ManifestHub">>}
\* both tabs; on the search-all tab the combobox is not read
BothTabs == TabRepos \cup {<<1, "swa">>}

\* a click on the process button: start_processing, and the start of its
\* worker thread up to the call of a driver in run_async_tasks, with the
\* notebook on one of tabs
ClickProcessOn(tabs) ==
    /\ gui.process_button
    /\ IF ~UnlockerDetermined(conf.unlocker_type)
       THEN /\ gui' = [gui EXCEPT !.click = "no_unlocker"]
            /\ UNCHANGED <<conf, callVars, workerVars>>
       ELSE IF ~Acquired(gui.processing_lock)
       THEN /\ gui' = [gui EXCEPT !.click = "busy"]
            /\ UNCHANGED <<conf, callVars, workerVars>>
       ELSE /\ gui.runs < MaxRuns
            /\ gui' = [gui EXCEPT
                          !.click = "started", !.processing_lock = TRUE,
                          !.workers = @ \cup {"process"}, !.process_button = FALSE,
                          !.search_button = FALSE, !.runs = @ + 1,
                          !.started = [unlocker_type |-> conf.unlocker_type,
                                       detected |-> gui.detected,
                                       chosen |-> gui.chosen]]
            /\ conf' = IF AutoUpdateMode(conf) THEN [conf EXCEPT !.lock = FALSE] ELSE conf
            /\ \E tr \in tabs, text \in EntryTexts :
                /\ driver' = (IF tr[1] = 0 THEN "specific" ELSE "searchall")
                /\ repo_val' = tr[2]
                /\ app_id_inputs' = text
                /\ pc' = (IF text = <<>> THEN "done" ELSE "start")
                /\ outcome' = (IF text = <<>> THEN "false" ELSE "pending")
            /\ app_ids' = <<>> /\ idx' = 0 /\ succeeded' = <<>> /\ requests' = {}
            /\ gate' = NoGate /\ cur' = NoCur /\ tasks' = <<>>
    /\ UNCHANGED <<netVars, disk, remote>>

ClickProcess == ClickProcessOn(TabRepos)

\* the end of the worker thread: the lock is released and processing_finished
\* is handed to the event loop
WorkerEnd ==
    /\ "process" \in gui.workers /\ pc = "done"
    /\ gui' = [gui EXCEPT !.workers = @ \ {"process"}, !.processing_lock = FALSE,
                          !.after = @ \cup {"processing_finished"}]
    /\ UNCHANGED <<netVars, conf, disk, remote, callVars, workerVars>>

ProcessingFinished ==
    /\ "processing_finished" \in gui.after
    /\ gui' = [gui EXCEPT !.after = @ \ {"processing_finished"},
                          !.process_button = TRUE, !.search_button = TRUE]
    /\ UNCHANGED <<netVars, conf, disk, remote, callVars, workerVars>>

\* a click on the search button: start_game_search, with a search term or with
\* a blank entry field
ClickSearch ==
    /\ gui.search_button
    /\ IF ~Acquired(gui.processing_lock)
       THEN gui' = [gui EXCEPT !.click = "search_busy"]
       ELSE \E blank \in BOOLEAN :
             IF blank
             THEN gui' = [gui EXCEPT !.click = "search_blank"]
             ELSE gui' = [gui EXCEPT !.click = "searching", !.processing_lock = TRUE,
                                     !.workers = @ \cup {"search"},
                                     !.search_button = FALSE]
    /\ UNCHANGED <<netVars, conf, disk, remote, callVars, workerVars>>

\* the end of the search thread
SearchEnd ==
    /\ "search" \in gui.workers
    /\ gui' = [gui EXCEPT !.workers = @ \ {"search"}, !.processing_lock = FALSE,
                          !.after = @ \cup {"search_finished"}]
    /\ UNCHANGED <<netVars, conf, disk, remote, callVars, workerVars>>

SearchFinished ==
    /\ "search_finished" \in gui.after
    /\ gui' = [gui EXCEPT !.after = @ \ {"search_finished"}, !.search_button = TRUE]
    /\ UNCHANGED <<netVars, conf, disk, remote, callVars, workerVars>>

-----------------------------------------------------------------------------
(* Specification SpecGui: the window from its creation on, with the worker   *)
(* threads it starts.  The Steam directory changes only by the program's     *)
(* own writes.                                                               *)

GuiTrees == {<<Path480Abc, PathKey>>}
GuiKeyContents == {KeyContentOk(TRUE, <<E481>>),
                   [kind |-> "syntax", has_depots |-> FALSE, depots |-> <<>>]}

InitGui ==
    /\ IS_CN = "unset"
    /\ last_detected_region = NoRegion
    /\ current_country = None
    /\ regionLog = {}
    /\ fcArgs = [state |-> "idle"]
    /\ fcOut = [state |-> "idle"]
    /\ \E only_lua \in BOOLEAN :
        conf = [unlocker_type |-> None, only_lua |-> only_lua, lock |-> FALSE]
    /\ \E path \in BOOLEAN, stplug_in \in BOOLEAN, dll \in BOOLEAN :
        /\ ~path => (~stplug_in /\ ~dll)
        /\ disk = [EmptyDir EXCEPT !.stplug = stplug_in]
        /\ gui = [NewGui EXCEPT !.path = path, !.dll = dll]
    /\ driver = None
    /\ repo_val = None
    /\ app_id_inputs = <<>>
    /\ remote = [trees |-> GuiTrees, keys |-> GuiKeyContents]
    /\ pc = "done"
    /\ app_ids = <<>>
    /\ idx = 0
    /\ succeeded = <<>>
    /\ outcome = "pending"
    /\ requests = {}
    /\ gate = NoGate
    /\ cur = NoCur
    /\ tasks = <<>>

NextGui ==
    \/ InitializeApp
    \/ DialogPick
    \/ DialogClose
    \/ ClickProcess
    \/ WorkerEnd
    \/ ProcessingFinished
    \/ ClickSearch
    \/ SearchEnd
    \/ SearchFinished
    \/ DriverStart
    \/ Gate
    \/ ResolveTree
    \/ TaskComplete
    \/ Join
    \/ Finish

SpecGui == InitGui /\ [][NextGui]_vars

-----------------------------------------------------------------------------
(* C8 *)

RunStarted == gui.runs > 0

-----------------------------------------------------------------------------
(* depotkey_merge on its own: one config.vdf, merged into again and again *)

MaxDepots == 2
MergeIds == {Id480, Id481, Id620}
MergeKeys == {KeyDeadbeef, KeyCafe}

\* the depots maps of at most n entries, as ordered dicts
DepotDicts(n) ==
    {d \in UNION {[1..k -> [id : MergeIds, key : MergeKeys]] : k \in 0..n} :
        \A i, j \in 1..Len(d) : i # j => d[i].id # d[j].id}

\* the config.vdf files a merge may meet first: missing, unparsable, without
\* the vendor section, or with it under one of three spellings, holding other
\* keys or not, without a depots map or with one of at most one entry
MergeConfigs ==
    {ConfigMissing, ConfigCorrupt, ConfigOk("none", FALSE, FALSE, <<>>)}
    \cup {ConfigOk(sect, TRUE, FALSE, <<>>) : sect \in {"Valve", "valve", "VALVE"}}
    \cup {ConfigOk("Valve", FALSE, FALSE, <<>>)}
    \cup {ConfigOk(sect, other, TRUE, d) :
            sect \in {"Valve", "valve"}, other \in BOOLEAN, d \in DepotDicts(1)}

InitMerge ==
    /\ IS_CN = "unset"
    /\ last_detected_region = NoRegion
    /\ current_country = None
    /\ regionLog = {}
    /\ fcArgs = Idle
    /\ fcOut = Idle
    /\ conf = [unlocker_type |-> "greenluma", only_lua |-> FALSE, lock |-> FALSE]
    /\ \E c \in MergeConfigs : disk = [EmptyDir EXCEPT !.config = c]
    /\ driver = None
    /\ repo_val = None
    /\ app_id_inputs = <<>>
    /\ remote = [trees |-> {}, keys |-> {}]
    /\ pc = "done"
    /\ app_ids = <<>>
    /\ idx = 0
    /\ succeeded = <<>>
    /\ outcome = "pending"
    /\ requests = {}
    /\ gate = NoGate
    /\ cur = NoCur
    /\ tasks = <<>>
    /\ gui = NewGui

\* one depotkey_merge call; `repeat` says that the call before it was given the
\* same keys
DepotkeyMergeCall ==
    \E new_depots \in DepotDicts(MaxDepots) :
        LET r == DepotkeyMerge(disk, new_depots)
        IN  /\ disk' = r.fs
            /\ fcArgs' = [state |-> "merge", before |-> disk, new |-> new_depots,
                          repeat |-> /\ fcArgs.state = "merge"
                                     /\ fcArgs.new = new_depots]
            /\ fcOut' = [state |-> "merge", ok |-> r.ok]
            /\ UNCHANGED <<IS_CN, regionVars, conf, runVars>>

NextMerge == DepotkeyMergeCall

SpecMerge == InitMerge /\ [][NextMerge]_vars

MergeCalled == fcArgs.state = "merge"
MergedBefore == fcArgs.before.config
MergedAfter == disk.config
DepotsOf(config) == IF config.kind = "ok" /\ config.has_depots THEN config.depots ELSE <<>>

(* C11 *)
\* C11: a successful depotkey_merge leaves the section name, the section's other
\* keys and every depots entry whose id is not among the new keys as they were
\* and where they were; each new id is in the map with its new key, and the map
\* holds no other id and no id twice.
C11_MergeFrame ==
    (MergeCalled /\ fcOut.ok) =>
        LET old == DepotsOf(MergedBefore)
            now == DepotsOf(MergedAfter)
            new == fcArgs.new
        IN  /\ MergedAfter.kind = "ok"
            /\ MergedAfter.sect = MergedBefore.sect
            /\ MergedAfter.other = MergedBefore.other
            /\ Len(now) >= Len(old)
            /\ \A i \in 1..Len(old) :
                 /\ now[i].id = old[i].id
                 /\ old[i].id \notin DictIds(new) => now[i] = old[i]
            /\ \A j \in 1..Len(new) : \E i \in 1..Len(now) : now[i] = new[j]
            /\ DictIds(now) = DictIds(old) \cup DictIds(new)
            /\ \A i, j \in 1..Len(now) : i # j => now[i].id # now[j].id

\* a merge that kept one entry, overwrote another and inserted a third
C11_Witness ==
    /\ MergeCalled /\ fcOut.ok
    /\ LET old == DepotsOf(MergedBefore)
           now == DepotsOf(MergedAfter)
       IN  /\ Len(old) = 2 /\ Len(now) = 3
           /\ now[1] = old[1]
           /\ now[2].id = old[2].id /\ now[2].key # old[2].key
           /\ MergedBefore.other

(* C12 *)
\* C12: a depotkey_merge given the same keys as the call before it leaves
\* config.vdf and its backup exactly as that call left them.
C12_MergeIdempotent ==
    (MergeCalled /\ fcArgs.repeat) => disk = fcArgs.before

\* a second merge of two keys into a config that the first one changed
C12_Witness ==
    /\ MergeCalled /\ fcArgs.repeat /\ fcOut.ok
    /\ Len(fcArgs.new) = 2
    /\ Len(DepotsOf(MergedAfter)) = 3

(* C15 *)
\* C15 as stated: whenever config.vdf holds the vendor section, spelled Valve,
\* valve or VALVE, depotkey_merge finds it and the new keys are in the map.
C15_AnySpellingFound ==
    (MergeCalled /\ MergedBefore.kind = "ok"
        /\ MergedBefore.sect \in {"Valve", "valve", "VALVE"}
        /\ (MergedBefore.other \/ MergedBefore.has_depots)) =>
        /\ fcOut.ok
        /\ \A j \in 1..Len(fcArgs.new) :
             \E i \in 1..Len(DepotsOf(MergedAfter)) :
                 DepotsOf(MergedAfter)[i] = fcArgs.new[j]

-----------------------------------------------------------------------------
(* C13, C14 *)

\* SpecBatch starts from a config.vdf without depots and without a backup, and
\* a merge that succeeded leaves a config with the vendor section, so a config
\* that is missing or lacks the section is the one the run started from.
MergeImpossible(config) == config \in {ConfigMissing, NoSection}
Untouched(fs) == MergeImpossible(fs.config) /\ fs.backup = ConfigMissing

\* C13: when config.vdf or its vendor section is missing, depotkey_merge
\* returns false (it returns true only where the section is), the file and its
\* backup stay as they were, and the batch driver goes on: it neither raises
\* nor returns before the loop is over.
C13_MergeFailsSoftly ==
    /\ cur.merged = "ok" => SectionFound(disk.config)
    /\ cur.merged = "failed" =>
         /\ Untouched(disk)
         /\ outcome # "raised"
         /\ pc = "done" => Len(succeeded) = Len(app_ids)

\* both identifiers of a GreenLuma batch were served although config.vdf is
\* missing: each got its marker files and the driver returned true
C13_Witness ==
    /\ ~IsSteamtools(conf)
    /\ disk.config = ConfigMissing
    /\ cur.merged = "failed"
    /\ {Id480, Id620} \subseteq disk.applist
    /\ Len(succeeded) = 2
    /\ pc = "done" /\ outcome = "true"

\* C14 as stated: a merge that found no config.vdf or no vendor section stops
\* the run; the identifier is not reported successful and the driver is over
\* without a true result.
C14_MergeFailureIsFatal ==
    cur.merged = "failed" =>
        /\ ~LastResult
        /\ pc = "done"
        /\ outcome \in {"false", "raised"}

-----------------------------------------------------------------------------
(* C16, C17, C18 *)

ArchiveRun == driver = "specific" /\ ~IsGithub(repo_val)
HasSection(config) == config.kind = "ok" /\ SectionFound(config)

\* C16: while an archive run waits for its archive the scratch directory is
\* there and empty, whatever an earlier session left in it; once the run has
\* returned, by whichever exit, the scratch directory does not exist.
C16_ScratchCleared ==
    ArchiveRun =>
        /\ pc = "zip" => disk.temp = "empty"
        /\ cur.exit # None => disk.temp = "absent"

\* the second archive run of a batch was left by an exception in the synthesis
\* after the first one succeeded
C16_Witness ==
    /\ ArchiveRun
    /\ Len(succeeded) = 2 /\ succeeded[1] /\ ~succeeded[2]
    /\ cur.exit = "fault"
    /\ disk.temp = "absent"

\* the other exits of an archive run, each of them reachable
C16_ExitSuccess == ArchiveRun /\ cur.exit = "success" /\ disk.temp = "absent"
C16_ExitStatus == ArchiveRun /\ cur.exit = "status" /\ disk.temp = "absent"
C16_ExitCorrupt == ArchiveRun /\ cur.exit = "corrupt" /\ disk.temp = "absent"
C16_ExitNoManifest == ArchiveRun /\ cur.exit = "no_manifest" /\ disk.temp = "absent"
C16_ExitException == ArchiveRun /\ cur.exit = "exception" /\ disk.temp = "absent"

\* C17: a GreenLuma archive run that found no manifest fails the identifier
\* and leaves the listing directory, config.vdf and its backup as they were
\* (SpecOne starts with an empty listing and a config without depots).
C17_NoManifestFails ==
    (ArchiveRun /\ cur.exit = "no_manifest") =>
        /\ ~LastResult
        /\ disk.applist = {}
        /\ DepotsOf(disk.config) = <<>>
        /\ disk.backup = ConfigMissing

\* an archive with a script that holds a key for the vendor section at hand,
\* and no manifest
C17_Witness ==
    /\ ArchiveRun /\ cur.exit = "no_manifest"
    /\ cur.archive.luas = <<Script2>>
    /\ HasSection(disk.config)
    /\ pc = "done" /\ outcome = "false"

\* the key lines of the scripts of an archive, retrieved or decoded, in the
\* form the SteamTools branch writes them; the boot line carries no key
RECURSIVE Flatten(_)
Flatten(files) == IF files = <<>> THEN <<>> ELSE Head(files) \o Flatten(Tail(files))
EmittedKeyLines(archive) ==
    SelectSeq(Flatten(archive.luas \o ConvertAll(archive.sts)),
              LAMBDA l : MatchesThreeArg(l) /\ l.key # BootLine(l.id).key)

\* C18 as stated: a GreenLuma archive run that succeeds gives the identifier a
\* marker file, and for every key line of the archive's scripts a marker file
\* for its depot and, where config.vdf has the vendor section, its key there.
C18_KeysRecovered ==
    (ArchiveRun /\ ~IsSteamtools(conf) /\ cur.exit = "success") =>
        /\ app_ids[1] \in disk.applist
        /\ \A i \in 1..Len(EmittedKeyLines(cur.archive)) :
             LET l == EmittedKeyLines(cur.archive)[i]
             IN  /\ l.id \in disk.applist
                 /\ HasSection(disk.config) =>
                      \E j \in 1..Len(DepotsOf(disk.config)) :
                          DepotsOf(disk.config)[j] = [id |-> l.id, key |-> l.key]

-----------------------------------------------------------------------------
(* resolve_appids on its own *)

MaxInputs == 3

\* input items: a bare identifier, one with blanks around it, the item
\* 620/store/app/620, two links, and the empty item
ResolveSamples ==
    {Id620, <<" ">> \o Id620 \o <<" ">>,
     Id620 \o <<"/", "s", "t", "o", "r", "e", "/", "a", "p", "p", "/">> \o Id620,
     StoreUrl \o Id480, SteamDbUrl \o Id620, <<>>}

InitResolve ==
    /\ IS_CN = "unset"
    /\ last_detected_region = NoRegion
    /\ current_country = None
    /\ regionLog = {}
    /\ fcArgs = Idle
    /\ fcOut = Idle
    /\ conf = [unlocker_type |-> "steamtools", only_lua |-> FALSE, lock |-> FALSE]
    /\ disk = EmptyDir
    /\ driver = None
    /\ repo_val = None
    /\ app_id_inputs \in UNION {[1..k -> ResolveSamples] : k \in 0..MaxInputs}
    /\ remote = [trees |-> {}, keys |-> {}]
    /\ pc = "done"
    /\ app_ids = <<>>
    /\ idx = 0
    /\ succeeded = <<>>
    /\ outcome = "pending"
    /\ requests = {}
    /\ gate = NoGate
    /\ cur = NoCur
    /\ tasks = <<>>
    /\ gui = NewGui

\* one resolve_appids call on the input items
ResolveCall ==
    /\ fcArgs.state = "idle"
    /\ fcArgs' = [state |-> "resolve", inputs |-> app_id_inputs]
    /\ fcOut' = [state |-> "resolve", ids |-> ResolveAppids(app_id_inputs)]
    /\ UNCHANGED <<IS_CN, regionVars, conf, disk, runVars>>

NextResolve == ResolveCall

SpecResolve == InitResolve /\ [][NextResolve]_vars

(* C19 *)
ResolveCalled == fcArgs.state = "resolve"
\* the identifier item k yields, <<>> when it yields none
IdOfItem(k) == ExtractAppId(Strip(fcArgs.inputs[k]))
Yielding == {k \in 1..Len(fcArgs.inputs) : IdOfItem(k) # <<>>}
FirstItemOf(id) == Min({k \in Yielding : IdOfItem(k) = id})

\* C19: resolve_appids returns a list without duplicates that holds exactly
\* the identifiers its items yield, ordered by the first item that yields
\* each; items that yield none add nothing; and the items 620, 620,
\* 620/store/app/620 resolve to the one identifier 620.
C19_ResolveOrderedSet ==
    ResolveCalled =>
        LET ids == fcOut.ids
        IN  /\ \A i, j \in 1..Len(ids) : i # j => ids[i] # ids[j]
            /\ {ids[i] : i \in 1..Len(ids)} = {IdOfItem(k) : k \in Yielding}
            /\ \A i, j \in 1..Len(ids) :
                 i < j => FirstItemOf(ids[i]) < FirstItemOf(ids[j])
            /\ fcArgs.inputs = <<Id620, Id620,
                                 Id620 \o <<"/", "s", "t", "o", "r", "e", "/", "a", "p",
                                            "p", "/">> \o Id620>>
                 => ids = <<Id620>>

\* three items of which one yields nothing and the other two one identifier
\* each, the later one first seen in a link
C19_Witness ==
    /\ ResolveCalled
    /\ Len(fcArgs.inputs) = 3
    /\ Cardinality(Yielding) = 2
    /\ fcOut.ids = <<Id480, Id620>>

\* the items 620, 620 and 620/store/app/620
C19_Example ==
    /\ ResolveCalled
    /\ fcArgs.inputs = <<Id620, Id620,
                         Id620 \o <<"/", "s", "t", "o", "r", "e", "/", "a", "p", "p",
                                    "/">> \o Id620>>
    /\ Yielding = {1, 2}

-----------------------------------------------------------------------------
(* STConverter.parse_st_file on its own *)

\* the key seeds: every low byte under four settings of the upper three bytes
SeedWords == {<<low>> \o high : low \in 0..255,
              high \in {<<0, 0, 0>>, <<1, 0, 0>>, <<164, 254, 255>>, <<255, 255, 255>>}}

\* the container files: a header alone that is too short, and for each seed a
\* payload that is a stream enciphered for that seed, or three bytes that are
\* not, under a size field that fits or asks for more than there is
StFiles ==
    {<<1, 0, 0, 0>>}
    \cup UNION {{StFile(seed, size, body) :
                    size \in {3, 5},
                    body \in {XorBytes(StreamScript, BitXor(seed[1], 200)),
                              <<177, 85, 0>>}} : seed \in SeedWords}

InitDecode ==
    /\ IS_CN = "unset"
    /\ last_detected_region = NoRegion
    /\ current_country = None
    /\ regionLog = {}
    /\ fcArgs \in [state : {"file"}, content : StFiles]
    /\ fcOut = Idle
    /\ conf = [unlocker_type |-> "steamtools", only_lua |-> FALSE, lock |-> FALSE]
    /\ disk = EmptyDir
    /\ driver = None
    /\ repo_val = None
    /\ app_id_inputs = <<>>
    /\ remote = [trees |-> {}, keys |-> {}]
    /\ pc = "done"
    /\ app_ids = <<>>
    /\ idx = 0
    /\ succeeded = <<>>
    /\ outcome = "pending"
    /\ requests = {}
    /\ gate = NoGate
    /\ cur = NoCur
    /\ tasks = <<>>
    /\ gui = NewGui

\* one parse_st_file call on the file
ParseStFileCall ==
    /\ fcArgs.state = "file"
    /\ fcArgs' = [fcArgs EXCEPT !.state = "parse"]
    /\ fcOut' = ParseStFile(fcArgs.content)
    /\ UNCHANGED <<IS_CN, regionVars, conf, disk, runVars>>

NextDecode == ParseStFileCall

SpecDecode == InitDecode /\ [][NextDecode]_vars

(* C20 *)
\* the positions of the one-bits of a byte
Bits(n) == {i \in 0..7 : (n \div (2 ^ i)) % 2 = 1}
\* the bits set in exactly one of two bytes
Differing(a, b) == (Bits(a) \ Bits(b)) \cup (Bits(b) \ Bits(a))

ParsedHeader == fcArgs.state = "parse" /\ fcOut.stage # "header"
ParsedPayload == fcArgs.state = "parse" /\ fcOut.stage \notin {"header", "size"}

\* C20: the key parse_st_file computes is a byte whose bits differ from those
\* of the low byte of the key seed exactly at the one-bits of 0xC8 (bits 3, 6
\* and 7), whatever the upper three bytes of the seed are; it is 0xC9 for the
\* seed 1; and each byte handed to the decompressor differs from the byte of
\* the payload at its place exactly at the one-bits of the key.
C20_EffectiveKey ==
    /\ ParsedHeader =>
         /\ fcOut.xorkey \in 0..255
         /\ Differing(fcOut.xorkey, fcArgs.content[1]) = {3, 6, 7}
         /\ Word(fcArgs.content, 1) = <<1, 0, 0, 0>> => fcOut.xorkey = 201
    /\ ParsedPayload =>
         /\ Len(fcOut.data) = fcArgs.content[5]
         /\ \A i \in 1..Len(fcOut.data) :
              Differing(fcOut.data[i], fcArgs.content[HeaderSize + i]) = Bits(fcOut.xorkey)

\* a file whose seed has all upper bytes set decodes to the script
C20_Witness ==
    /\ fcArgs.state = "parse"
    /\ Word(fcArgs.content, 1) = <<1, 255, 255, 255>>
    /\ ~fcOut.raised
    /\ fcOut.xorkey = 201
    /\ fcOut.text = DecodedScript

-----------------------------------------------------------------------------
(* C21 *)

\* The gathered tasks of the identifier at hand run one after the other in
\* the order of the tree, each with the download outcome and the file content
\* it had in the run: the directory after task n and the results of tasks 1..n
RECURSIVE InTreeOrder(_)
InTreeOrder(n) ==
    IF n = 0 THEN [fs |-> cur.before, results |-> <<>>]
    ELSE LET prev == InTreeOrder(n - 1)
             out == Handler(prev.fs, conf, cur.tree[n], app_ids[Len(succeeded)],
                            AllManifests(cur.tree), [raised |-> tasks[n].failed],
                            tasks[n].content)
         IN  [fs |-> out.fs,
              results |-> Append(prev.results,
                                 [raised |-> out.raised, depots |-> out.depots])]

JoinedInTreeOrder ==
    AfterJoin(InTreeOrder(Len(tasks)).fs, conf, app_ids[Len(succeeded)],
              InTreeOrder(Len(tasks)).results)

\* the tasks of the last identifier have been joined and nothing has run since
JustJoined == Joined /\ Len(tasks) = Len(cur.tree) /\ cur.tree # <<>>

\* C21 as stated: whatever order the tasks of an identifier completed in, the
\* identifier's result and the Steam directory are those of the run in which
\* the same tasks, with the same downloads, complete in the order of the tree.
C21_OrderIrrelevant ==
    JustJoined =>
        /\ LastResult = JoinedInTreeOrder.ok
        /\ disk = JoinedInTreeOrder.fs

\* the same with the plugin directory in place before the run (or with
\* GreenLuma, which writes no script): then the order does not matter
C21_OrderIrrelevantWithPlugin ==
    (JustJoined /\ (cur.before.stplug \/ ~IsSteamtools(conf))) =>
        /\ LastResult = JoinedInTreeOrder.ok
        /\ disk = JoinedInTreeOrder.fs

-----------------------------------------------------------------------------
(* C22 *)

\* task i fetched a key config that parses and holds a key for every depot
KeyTaskServed(i) ==
    /\ IsKeyPath(cur.tree[i])
    /\ ~tasks[i].failed
    /\ tasks[i].content.kind = "ok"
    /\ \A j \in 1..Len(DepotPairs(tasks[i].content)) : tasks[i].content.depots[j].has_key

ScriptWritten(app_id) == disk.stplug /\ disk.lua[app_id] # NoFile

\* C22 as stated: with SteamTools, once a key config has been fetched and
\* parsed on the tree path, or an archive run has succeeded, the plugin
\* directory exists and holds the script of the identifier.
C22_PluginDirEnsured ==
    /\ (JustJoined /\ IsSteamtools(conf) /\ \E i \in 1..Len(tasks) : KeyTaskServed(i))
         => ScriptWritten(app_ids[Len(succeeded)])
    /\ (ArchiveRun /\ IsSteamtools(conf) /\ cur.exit = "success")
         => ScriptWritten(app_ids[Len(succeeded)])

\* the archive path alone does ensure the directory
C22_ArchiveEnsures ==
    (ArchiveRun /\ IsSteamtools(conf) /\ cur.exit = "success")
        => ScriptWritten(app_ids[Len(succeeded)])

-----------------------------------------------------------------------------
(* get_manifest_from_github on its own: one tree entry *)

\* every setting of the unlocker, steamtools_only_lua and the version lock
AllCfgs == [unlocker_type : {"steamtools", "greenluma"}, only_lua : BOOLEAN,
            lock : BOOLEAN]

\* the entries: a path, whether its download fails, and what the file holds
Entries ==
    UNION {[state : {"entry"}, path : {SamplePaths[i]}, failed : BOOLEAN,
            content : ContentsOf(SamplePaths[i], KeyContents)] :
           i \in 1..Len(SamplePaths)}

InitHandler ==
    /\ IS_CN = "unset"
    /\ last_detected_region = NoRegion
    /\ current_country = None
    /\ regionLog = {}
    /\ fcArgs \in Entries
    /\ fcOut = Idle
    /\ conf \in AllCfgs
    /\ disk \in {[EmptyDir EXCEPT !.stplug = s] : s \in BOOLEAN}
    /\ driver = None
    /\ repo_val = None
    /\ app_id_inputs = <<>>
    /\ remote = [trees |-> {}, keys |-> {}]
    /\ pc = "done"
    /\ app_ids = <<>>
    /\ idx = 0
    /\ succeeded = <<>>
    /\ outcome = "pending"
    /\ requests = {}
    /\ gate = NoGate
    /\ cur = NoCur
    /\ tasks = <<>>
    /\ gui = NewGui

\* one get_manifest_from_github call for identifier 480 in a tree that holds
\* 480_abc.manifest; `requested` says whether get_from_url was called
HandlerCall ==
    /\ fcArgs.state = "entry"
    /\ LET out == Handler(disk, conf, fcArgs.path, Id480, <<Path480Abc>>,
                          [raised |-> fcArgs.failed], fcArgs.content)
       IN  /\ disk' = out.fs
           /\ fcOut' = [state |-> "handled", raised |-> out.raised, depots |-> out.depots,
                        requested |-> ~SkipsDownload(conf, fcArgs.path),
                        before |-> disk]
    /\ fcArgs' = [fcArgs EXCEPT !.state = "handled"]
    /\ UNCHANGED <<IS_CN, regionVars, conf, runVars>>

NextHandler == HandlerCall

SpecHandler == InitHandler /\ [][NextHandler]_vars

(* C23 *)
ManifestHandled == fcArgs.state = "handled" /\ EndsWith(fcArgs.path, DotManifest)
OnlyLuaCounts == conf.unlocker_type = "steamtools" /\ conf.only_lua

\* C23: get_manifest_from_github on a manifest entry returns no keys and does
\* not raise.  When steamtools_only_lua is set and the unlocker is SteamTools,
\* it makes no request and writes nothing.  Otherwise it requests the file and,
\* when the download succeeds, adds the file under its base name to both
\* depotcache directories and changes no script, listing or config; when the
\* download fails it writes nothing.
C23_ManifestStored ==
    ManifestHandled =>
        /\ fcOut.depots = <<>> /\ ~fcOut.raised
        /\ fcOut.requested = ~OnlyLuaCounts
        /\ IF OnlyLuaCounts \/ fcArgs.failed
           THEN disk = fcOut.before
           ELSE /\ disk.depotcache = fcOut.before.depotcache \cup {BaseName(fcArgs.path)}
                /\ disk.cfgdepotcache =
                     fcOut.before.cfgdepotcache \cup {BaseName(fcArgs.path)}
                /\ disk.lua = fcOut.before.lua
                /\ disk.applist = fcOut.before.applist
                /\ disk.config = fcOut.before.config

\* with GreenLuma the setting is on and the manifest is stored all the same
C23_Witness ==
    /\ ManifestHandled
    /\ conf.unlocker_type = "greenluma" /\ conf.only_lua
    /\ fcOut.requested
    /\ BaseName(fcArgs.path) \in disk.depotcache \cap disk.cfgdepotcache

\* with SteamTools and the setting on, the manifest is skipped
C23_Skipped ==
    /\ ManifestHandled
    /\ OnlyLuaCounts
    /\ ~fcOut.requested
    /\ disk = fcOut.before

-----------------------------------------------------------------------------
(* C24 *)

\* the hosts one call may ask, by the region flag the call read
Favoured == IF fcArgs.is_cn = "yes" THEN SeqToSet(MirrorHosts) ELSE SeqToSet(DirectHosts)
Requested == fcOut.requests

\* C24: one get_from_url call sends at most two requests when IS_CN is 'yes' and
\* at most one otherwise; it asks only the hosts of its candidate list (never the
\* direct host when mirrors are favoured), asks no host twice, and sends no
\* request after one that answered 200.
C24_BoundedRequests ==
    FetchCalled =>
        /\ Len(Requested) <= (IF fcArgs.is_cn = "yes" THEN 2 ELSE 1)
        /\ \A i \in 1..Len(Requested) : Requested[i] \in Favoured
        /\ \A i, j \in 1..Len(Requested) : Requested[i] = Requested[j] => i = j
        /\ \A i \in 1..Len(Requested) :
               fcArgs.resp[Requested[i]].kind = "200" => i = Len(Requested)

\* both mirrors were asked once each, the first answering a status other than
\* 200 and the second failing too, while the direct host would have answered
C24_Witness ==
    /\ FetchCalled
    /\ fcArgs.is_cn = "yes"
    /\ fcArgs.resp[MirrorHosts[1]].kind = "status"
    /\ fcArgs.resp[MirrorHosts[2]].kind = "exc"
    /\ fcArgs.resp[DirectHosts[1]].kind = "200"
    /\ Requested = MirrorHosts
    /\ fcOut.raised

-----------------------------------------------------------------------------
(* C25 *)

\* the call reached its result handling with the region that was stored already
SameRegionDetected ==
    /\ CheckCnCalled
    /\ fcArgs.detected # NoRegion
    /\ fcArgs.detected = fcArgs.before.last

\* C25: a checkcn call that detects the region already stored in
\* last_detected_region leaves last_detected_region, current_country and IS_CN
\* as they were and logs nothing about the region.
C25_SameRegionNoOp ==
    SameRegionDetected =>
        /\ RegionState = fcArgs.before
        /\ regionLog = {}
        /\ ~fcArgs.raised

\* a second detection of a region outside the mainland, answered by the second API
C25_Witness ==
    /\ SameRegionDetected
    /\ ~fcArgs.failed
    /\ fcArgs.before.last = NotCn("US")
    /\ IS_CN = "no"
    /\ current_country = "US"

\* every probe failing again while the mirror region is stored
C25_DefaultAgain ==
    /\ SameRegionDetected
    /\ fcArgs.failed
    /\ fcArgs.before.last = RegionCn
    /\ regionLog = {}

-----------------------------------------------------------------------------
(* C30 *)

\* C30: once checkcn has been called, whatever the probes answered and wherever
\* an internal exception was raised, IS_CN is set, and it is 'yes' exactly when
\* last_detected_region is 'cn'.
C30_FlagFollowsRegion ==
    fcArgs.state # "idle" =>
        /\ IS_CN \in {"yes", "no"}
        /\ (IS_CN = "yes") <=> (last_detected_region = RegionCn)

\* the very first call detected a region outside the mainland and raised while
\* logging it: the except branch stored the mirror region and set the flag to it
C30_Witness ==
    /\ CheckCnCalled
    /\ fcArgs.raised
    /\ fcArgs.before.is_cn = "unset"
    /\ ~fcArgs.failed
    /\ fcArgs.detected # RegionCn
    /\ last_detected_region = RegionCn
    /\ IS_CN = "yes"

\* a later call raised after the flag had been set to 'no'
C30_KeptOnException ==
    /\ CheckCnCalled
    /\ fcArgs.raised
    /\ fcArgs.before.is_cn = "no"
    /\ IS_CN = "no"
    /\ last_detected_region # RegionCn

-----------------------------------------------------------------------------
(* C28 *)

\* the active pin lines of the script a tree run wrote for its identifier
ActivePins ==
    LET script == disk.lua[app_ids[Len(succeeded)]]
    IN  {script[k] : k \in {n \in 1..Len(script) :
                              /\ script[n].op = "setManifestid"
                              /\ ~script[n].commented}}

\* the manifest a pin names was fetched and stored by a task of this run
StoredInRun(line) ==
    \E i \in 1..Len(cur.tree) :
        /\ ManifestPin(cur.tree[i]) = <<line.id, line.token>>
        /\ ~SkipsDownload(conf, cur.tree[i])
        /\ ~tasks[i].failed
        /\ BaseName(cur.tree[i]) \in disk.depotcache \cap disk.cfgdepotcache

ScriptFromTree ==
    /\ JustJoined
    /\ IsSteamtools(conf)
    /\ disk.lua[app_ids[Len(succeeded)]] # cur.before.lua[app_ids[Len(succeeded)]]

\* C28 as stated: with SteamTools on the tree path, every uncommented
\* setManifestid line of the script written for an identifier names a manifest
\* that was stored in the depotcache directories during the same run.
C28_PinsBacked ==
    ScriptFromTree => \A line \in ActivePins : StoredInRun(line)

\* what does hold: with auto-update-only mode off and no manifest download
\* failing, every active pin names a manifest stored in the run
C28_PinsBackedWhenFetched ==
    (/\ ScriptFromTree
     /\ ~AutoUpdateMode(conf)
     /\ \A i \in 1..Len(cur.tree) : IsManifestPath(cur.tree[i]) => ~tasks[i].failed)
        => \A line \in ActivePins : StoredInRun(line)

\* such a run with an active pin
C28_Fetched ==
    /\ ScriptFromTree
    /\ ~AutoUpdateMode(conf)
    /\ ActivePins # {}
    /\ \A line \in ActivePins : StoredInRun(line)

\* a pin left active for a manifest whose download failed, in a run that succeeded
C28_PinOfFailedDownload ==
    /\ ScriptFromTree
    /\ ~AutoUpdateMode(conf)
    /\ LastResult
    /\ \E line \in ActivePins : ~StoredInRun(line)

-----------------------------------------------------------------------------
(* C29 *)

\* the names process_from_specific_repo sends to the archive handlers
ArchiveNames == {val \in SeqToSet(RepoOptions) : ~IsGithub(val)}

QueriedByTree == IF driver = "searchall" THEN SeqToSet(cur.queried) ELSE {}

\* C29 as stated: search_all_repos asks the GitHub branch API for no source that
\* process_from_specific_repo treats as an archive source (swa, cysaw, furcate,
\* cngs, steamdatabase, walftech).
C29_OnlyTreeSources == QueriedByTree \cap ArchiveNames = {}

\* what does hold: of the archive sources only walftech is asked
C29_OnlyWalftechSlips == QueriedByTree \cap ArchiveNames \subseteq {"walftech"}

\* a search that asked the two GitHub repositories
C29_TreeSourcesAsked ==
    {"Auiowu/ManifestAutoUpdate", "SteamAutoCracks/ManifestHub"} \subseteq QueriedByTree

-----------------------------------------------------------------------------
(* C26 *)

\* a choice made in the dialog while detect_unlocker still finds no unlocker
PickWithoutSignals ==
    /\ DialogPick
    /\ gui.path
    /\ DetectUnlocker(disk.stplug, gui.dll) = "none"

\* C26 as stated: when detect_unlocker finds no unlocker and the user picks
\* SteamTools or GreenLuma in the manual selection dialog, the choice is
\* recorded, the process button is left as it was, and the dialog is not shown
\* again.
C26_PickEndsSelection ==
    [][PickWithoutSignals =>
          /\ conf'.unlocker_type \in {"steamtools", "greenluma"}
          /\ gui'.process_button = gui.process_button
          /\ ~gui'.dialog]_vars

\* what does hold: the choice is recorded and the process button left as it
\* was, but the dialog is open again after every such choice
C26_PickReopensDialog ==
    [][PickWithoutSignals =>
          /\ conf'.unlocker_type \in {"steamtools", "greenluma"}
          /\ gui'.process_button = gui.process_button
          /\ gui'.dialog]_vars

\* the only way out: the dialog shown again is closed without a choice, which
\* disables the process button although an unlocker has been chosen
C26_ClosedAfterPick ==
    /\ gui.chosen
    /\ gui.detected = "none"
    /\ ~gui.dialog
    /\ ~gui.process_button
    /\ gui.runs = 0
    /\ conf.unlocker_type \in {"steamtools", "greenluma"}

-----------------------------------------------------------------------------
(* Specification SpecWorkers: the window of a SteamTools installation, its   *)
(* two buttons and the worker threads they start, on either tab              *)

InitWorkers ==
    /\ IS_CN = "unset"
    /\ last_detected_region = NoRegion
    /\ current_country = None
    /\ regionLog = {}
    /\ fcArgs = [state |-> "idle"]
    /\ fcOut = [state |-> "idle"]
    /\ conf = [unlocker_type |-> None, only_lua |-> FALSE, lock |-> FALSE]
    /\ disk = [EmptyDir EXCEPT !.stplug = TRUE]
    /\ gui = [NewGui EXCEPT !.path = TRUE]
    /\ driver = None
    /\ repo_val = None
    /\ app_id_inputs = <<>>
    /\ remote = [trees |-> GuiTrees, keys |-> GuiKeyContents]
    /\ pc = "done"
    /\ app_ids = <<>>
    /\ idx = 0
    /\ succeeded = <<>>
    /\ outcome = "pending"
    /\ requests = {}
    /\ gate = NoGate
    /\ cur = NoCur
    /\ tasks = <<>>

ClickProcessAnyTab == ClickProcessOn(BothTabs)

NextWorkers ==
    \/ InitializeApp
    \/ ClickProcessAnyTab
    \/ WorkerEnd
    \/ ProcessingFinished
    \/ ClickSearch
    \/ SearchEnd
    \/ SearchFinished
    \/ DriverStart
    \/ Gate
    \/ ResolveTree
    \/ SearchRepo
    \/ SearchSelect
    \/ TaskComplete
    \/ Join
    \/ Finish

SpecWorkers == InitWorkers /\ [][NextWorkers]_vars

-----------------------------------------------------------------------------
(* C27 *)

StartRequest == ClickProcessAnyTab \/ ClickSearch

\* C27: at most one worker thread (processing or game search) runs at a time
\* and processing_lock is held exactly while one runs; a click on either button
\* while the lock is held starts no worker and leaves the running one alone;
\* the end of a worker releases the lock whether its task returned or raised;
\* and with the lock free a click with input starts a worker.
C27_OneWorker ==
    [][/\ Cardinality(gui'.workers) <= 1
       /\ gui'.processing_lock <=> (gui'.workers # {})
       /\ (gui.processing_lock /\ StartRequest) =>
             /\ gui'.workers = gui.workers
             /\ gui'.processing_lock
             /\ UNCHANGED <<callVars, workerVars>>
       /\ (WorkerEnd \/ SearchEnd) => ~gui'.processing_lock
       /\ (~gui.processing_lock /\ StartRequest
             /\ gui'.click \in {"started", "searching"}) =>
             Cardinality(gui'.workers) = 1]_vars

\* a processing run left its driver by an exception, the lock was released, and
\* the search started afterwards was accepted
C27_Witness ==
    /\ outcome = "raised"
    /\ gui.runs = 1
    /\ gui.click = "searching"
    /\ gui.workers = {"search"}
    /\ gui.processing_lock

\* a click on the process button was refused while a search was running
C27_Refused ==
    /\ gui.click = "busy"
    /\ gui.workers = {"search"}
    /\ gui.processing_lock
    /\ gui.runs = 0

=============================================================================
